---- MODULE Spec2Model ----
(***************************************************************************)
(* haiku.skills: the skill execution and state-synchronisation core.      *)
(*                                                                         *)
(*   Spec        SkillToolset: construction, state namespaces, snapshot   *)
(*               and restore, get_tools, execute_skill (several calls may  *)
(*               be in flight at once on the one event loop).              *)
(*   SpecDelta   compute_state_delta over bounded snapshots.               *)
(*   SpecStream  AguiEventStream: the merged event stream of one run.      *)
(*   SpecRegistry, SpecResources, SpecRequests: the registry, the          *)
(*               read_resource tool, get_tools over requests.              *)
(*   SpecNames, SpecSkillMd: name validation and the SKILL.md header.      *)
(*   SpecRun     the sub-agent run of one execute_skill call.              *)
(*   SpecTasks   TaskToolset.  SpecOrchestrate: Orchestrator.orchestrate.  *)
(***************************************************************************)
EXTENDS Integers, Sequences, FiniteSets, TLC

VARIABLES
    skills,                \* the skills=[...] argument of SkillToolset(...)
    ctor,                  \* "new", "ready", or the exception __init__ raised
    _registry,             \* SkillRegistry._skills: name -> Skill
    _namespaces,           \* SkillToolset._namespaces: namespace -> object id
    _namespaces_keys,      \* insertion order of the _namespaces dict
    heap,                  \* object id -> state instance (a BaseModel)
    _last_restored_state,  \* identity of the dict last restored by get_tools
    _event_sink,           \* SkillToolset._event_sink
    execs,                 \* the execute_skill calls, one record per call slot
    sinked,                \* events received by a directly attached sink
    lastOp,                \* the operation that produced the current state
    restored_dicts,        \* the deps.state dicts get_tools has restored from
    old, new, delta,       \* compute_state_delta: arguments and result
    stream_pc,             \* position of the consumer of the AguiEventStream
    _queue,                \* AguiEventStream._queue
    _task,                 \* AguiEventStream._task (the run_adapter task)
    adapter_items,         \* what adapter.run_stream() will yield, in order
    adapter_i,             \* how many of them it has yielded
    received,              \* events __anext__ has returned to the consumer
    enqueued,              \* every put_nowait on _queue, in order
    input, output,         \* a function applied once: its argument, its result
    messages,              \* result.all_messages() of the sub-agent run
    requests,              \* usage.requests of the sub-agent run
    run_pc,                \* position of the execute_skill call around the run
    run_output,            \* result.output of the sub-agent run
    _tasks,                \* TaskToolset._tasks: id -> Task
    _counter,              \* TaskToolset._counter
    issued,                \* every task id create_task has issued, in order
    orchestrator_state,    \* the OrchestratorState passed to orchestrate
    coro,                  \* position of each execute_task coroutine
    _semaphore,            \* Orchestrator._semaphore: the free slots
    orch_pc,               \* position of the orchestrate coroutine
    synthesize_calls,      \* how many times synthesize was called
    streams                \* the AguiEventStreams open on one toolset, by number

toolsetVars == <<skills, ctor, _registry, _namespaces, _namespaces_keys, heap,
                 _last_restored_state, _event_sink, execs, sinked, lastOp,
                 restored_dicts>>
toolsetVars_but_lastOp ==
    <<skills, ctor, _registry, _namespaces, _namespaces_keys, heap,
      _last_restored_state, _event_sink, execs, sinked, restored_dicts>>
deltaVars   == <<old, new, delta>>
streamVars  == <<stream_pc, _queue, _task, adapter_items, adapter_i,
                 received, enqueued>>
callVars    == <<input, output>>
runVars     == <<messages, requests, run_pc, run_output>>
taskVars    == <<_tasks, _counter, issued>>
orchVars    == <<orchestrator_state, coro, _semaphore, orch_pc, synthesize_calls>>
streamsVars == <<streams>>
restVars    == <<callVars, runVars, taskVars, orchVars, streamsVars>>
vars        == <<toolsetVars, deltaVars, streamVars, restVars>>

-----------------------------------------------------------------------------
(* Bounds *)

MaxStreams == 2      \* AguiEventStreams opened on one toolset
MaxCount   == 1      \* CounterState.count ranges over 0..MaxCount
MaxItems   == 1      \* ItemsState.items has at most MaxItems elements
MaxTools   == 1      \* tool calls one sub-agent run makes
MaxNameLen == 3      \* names of up to MaxNameLen characters are enumerated
MaxHeaderLen == 3    \* characters of an allowed-tools string
MaxRounds  == 2      \* tool rounds of a run whose tool returns are enumerated
MaxTasks   == 3      \* tasks create_task makes over the life of a TaskToolset
MaxPlanTasks == 3    \* tasks of a DecompositionPlan
MaxConcurrency == 2  \* max_concurrency ranges over 1..MaxConcurrency
MaxCalls   == 2      \* execute_skill calls over the life of a toolset
MaxAdapter == 2      \* items one adapter.run_stream() yields
MaxDeltaItems == 2   \* length of a list in a snapshot given to compute_state_delta

None    == "None"             \* None where a str is expected
NoneObj == [k |-> "None"]     \* None where an object is expected

RECURSIVE SetToSeq(_)
SetToSeq(S) ==
    IF S = {} THEN <<>>
    ELSE LET x == CHOOSE y \in S : TRUE IN <<x>> \o SetToSeq(S \ {x})

SeqsUpTo(S, n) == UNION {[1..m -> S] : m \in 0..n}

-----------------------------------------------------------------------------
(* JSON values, as model_dump(mode="json") produces and model_validate     *)
(* and jsonpatch consume them.                                             *)

JInt(n)  == [k |-> "int",  n |-> n]
JStr(s)  == [k |-> "str",  v |-> s]
JList(s) == [k |-> "list", s |-> s]
JObj(f)  == [k |-> "dict", d |-> f]

EmptyDict == << >>
Keys(j)   == DOMAIN j.d

-----------------------------------------------------------------------------
(* The state types of the test-suite: CounterState{count: int = 0} and     *)
(* ItemsState{items: list[str] = []}.                                      *)

ItemValues == {"x", "y"}

CounterState(n) == [type |-> "CounterState", count |-> n]
ItemsState(s)   == [type |-> "ItemsState",   items |-> s]


NewState(state_type) ==
    IF state_type = "CounterState" THEN CounterState(0) ELSE ItemsState(<<>>)

\* BaseModel.model_dump(mode="json")
model_dump(obj) ==
    IF obj.type = "CounterState"
    THEN JObj([count |-> JInt(obj.count)])
    ELSE JObj([items |-> JList([i \in 1..Len(obj.items) |-> JStr(obj.items[i])])])

\* pydantic's lax int parsing of a string
NumericStrings == <<"0", "1", "2", "3", "4", "5">>
IsNumeric(s)   == \E i \in 1..Len(NumericStrings) : NumericStrings[i] = s
StrToInt(s)    == (CHOOSE i \in 1..Len(NumericStrings) : NumericStrings[i] = s) - 1

ValidationError == [ok |-> FALSE]
Valid(obj)      == [ok |-> TRUE, obj |-> obj]

\* model_type.model_validate(state_data): unknown keys are ignored, missing
\* fields take their default, values are coerced in lax mode or rejected.
ValidateCounter_default(data) ==
    IF data.k # "dict" THEN ValidationError ELSE Valid(CounterState(0))

ValidateCounter(data) ==
    IF data.k # "dict" THEN ValidationError
    ELSE IF "count" \notin Keys(data) THEN Valid(CounterState(0))
    ELSE LET v == data.d["count"] IN
         IF v.k = "int" THEN Valid(CounterState(v.n))
         ELSE IF v.k = "str" /\ IsNumeric(v.v) THEN Valid(CounterState(StrToInt(v.v)))
         ELSE ValidationError

ValidateItems(data) ==
    IF data.k # "dict" THEN ValidationError
    ELSE IF "items" \notin Keys(data) THEN Valid(ItemsState(<<>>))
    ELSE LET v == data.d["items"] IN
         IF v.k = "list" /\ \A i \in 1..Len(v.s) : v.s[i].k = "str"
         THEN Valid(ItemsState([i \in 1..Len(v.s) |-> v.s[i].v]))
         ELSE ValidationError

model_validate(model_type, data) ==
    IF model_type = "CounterState" THEN ValidateCounter(data) ELSE ValidateItems(data)

-----------------------------------------------------------------------------
(* jsonpatch.make_patch(old, new), as compute_state_delta calls it.        *)

IdxStr(i) == NumericStrings[i + 1]

RemoveOp(path)         == [op |-> "remove",  path |-> path]
AddOp(path, value)     == [op |-> "add",     path |-> path, value |-> value]
ReplaceOp(path, value) == [op |-> "replace", path |-> path, value |-> value]

RECURSIVE _compare_values(_, _, _)
RECURSIVE _compare_dicts(_, _, _, _)
RECURSIVE _compare_lists(_, _, _, _)

\* DiffBuilder._compare_dicts: removed keys, then added keys, then the keys
\* both have; ks is the sequence of keys still to visit in the current pass.
_compare_dicts(path, src, dst, ks) ==
    IF ks = <<>> THEN <<>>
    ELSE LET key  == Head(ks)
             here == IF key \notin Keys(dst) THEN <<RemoveOp(Append(path, key))>>
                     ELSE IF key \notin Keys(src)
                          THEN <<AddOp(Append(path, key), dst.d[key])>>
                          ELSE _compare_values(Append(path, key), src.d[key], dst.d[key])
         IN here \o _compare_dicts(path, src, dst, Tail(ks))

\* DiffBuilder._compare_lists from index key (0-based) on
_compare_lists(path, src, dst, key) ==
    LET len_src == Len(src.s)
        len_dst == Len(dst.s)
        max_len == IF len_src > len_dst THEN len_src ELSE len_dst
        min_len == IF len_src < len_dst THEN len_src ELSE len_dst
    IN IF key >= max_len THEN <<>>
       ELSE LET here ==
                  IF key < min_len
                  THEN LET o == src.s[key + 1]
                           n == dst.s[key + 1]
                       IN IF o = n THEN <<>>
                          ELSE IF o.k = "dict" /\ n.k = "dict"
                               THEN _compare_dicts(Append(path, IdxStr(key)), o, n,
                                        SetToSeq(Keys(o) \ Keys(n))
                                        \o SetToSeq(Keys(n) \ Keys(o))
                                        \o SetToSeq(Keys(o) \cap Keys(n)))
                          ELSE IF o.k = "list" /\ n.k = "list"
                               THEN _compare_lists(Append(path, IdxStr(key)), o, n, 0)
                          ELSE <<RemoveOp(Append(path, IdxStr(key))),
                                 AddOp(Append(path, IdxStr(key)), n)>>
                  ELSE IF len_src > len_dst
                       THEN <<RemoveOp(Append(path, IdxStr(len_dst)))>>
                       ELSE <<AddOp(Append(path, IdxStr(key)), dst.s[key + 1])>>
            IN here \o _compare_lists(path, src, dst, key + 1)

\* DiffBuilder._compare_values
_compare_values(path, src, dst) ==
    IF src.k = "dict" /\ dst.k = "dict"
    THEN _compare_dicts(path, src, dst,
             SetToSeq(Keys(src) \ Keys(dst))
             \o SetToSeq(Keys(dst) \ Keys(src))
             \o SetToSeq(Keys(src) \cap Keys(dst)))
    ELSE IF src.k = "list" /\ dst.k = "list"
    THEN _compare_lists(path, src, dst, 0)
    ELSE IF src = dst THEN <<>>
    ELSE <<ReplaceOp(path, dst)>>

\* DiffBuilder.execute: a remove directly followed by an add at the same
\* location is emitted as one replace.
RECURSIVE execute(_)
execute(ops) ==
    IF ops = <<>> THEN <<>>
    ELSE IF /\ Len(ops) >= 2
            /\ ops[1].op = "remove"
            /\ ops[2].op = "add"
            /\ ops[1].path = ops[2].path
         THEN <<ReplaceOp(ops[2].path, ops[2].value)>> \o execute(Tail(Tail(ops)))
         ELSE <<Head(ops)>> \o execute(Tail(ops))

make_patch_whole_namespace(src, dst) ==
    LET ks == SetToSeq({k \in Keys(src) \cap Keys(dst) : src.d[k] # dst.d[k]})
    IN [i \in 1..Len(ks) |-> ReplaceOp(<<ks[i]>>, dst.d[ks[i]])]

make_patch(src, dst) == execute(_compare_values(<<>>, src, dst))

StateDeltaEvent(patch) == [type |-> "STATE_DELTA", delta |-> patch]

compute_state_delta_always_event(o, n) == StateDeltaEvent(make_patch(o, n))

compute_state_delta(o, n) ==
    LET patch == make_patch(o, n)
    IN IF patch = <<>> THEN NoneObj ELSE StateDeltaEvent(patch)

\* JsonPatch(event.delta).apply(doc), as the chat client applies a delta: the
\* operations in order, each on the document the one before it left.
JsonPatchConflict == [k |-> "JsonPatchConflict"]

RECURSIVE apply_operation(_, _, _)
\* one operation at the location path, relative to doc
apply_operation(doc, path, operation) ==
    IF doc = JsonPatchConflict THEN JsonPatchConflict
    ELSE IF path = <<>>
    THEN (IF operation.op = "remove" THEN JsonPatchConflict ELSE operation.value)
    ELSE LET key == Head(path) IN
    IF doc.k = "dict"
    THEN IF Len(path) > 1
         THEN IF key \notin Keys(doc) THEN JsonPatchConflict
              ELSE LET sub == apply_operation(doc.d[key], Tail(path), operation)
                   IN IF sub = JsonPatchConflict THEN JsonPatchConflict
                      ELSE JObj([f \in Keys(doc) |-> IF f = key THEN sub ELSE doc.d[f]])
         ELSE IF operation.op = "add"
         THEN JObj([f \in Keys(doc) \cup {key} |->
                       IF f = key THEN operation.value ELSE doc.d[f]])
         ELSE IF key \notin Keys(doc) THEN JsonPatchConflict
         ELSE IF operation.op = "remove"
         THEN JObj([f \in Keys(doc) \ {key} |-> doc.d[f]])
         ELSE JObj([f \in Keys(doc) |-> IF f = key THEN operation.value ELSE doc.d[f]])
    ELSE IF doc.k = "list" /\ IsNumeric(key)
    THEN LET i == StrToInt(key)
             n == Len(doc.s)
         IN IF Len(path) > 1
            THEN IF i >= n THEN JsonPatchConflict
                 ELSE LET sub == apply_operation(doc.s[i + 1], Tail(path), operation)
                      IN IF sub = JsonPatchConflict THEN JsonPatchConflict
                         ELSE JList([doc.s EXCEPT ![i + 1] = sub])
            ELSE IF operation.op = "add"
            THEN IF i > n THEN JsonPatchConflict
                 ELSE JList(SubSeq(doc.s, 1, i) \o <<operation.value>>
                            \o SubSeq(doc.s, i + 1, n))
            ELSE IF i >= n THEN JsonPatchConflict
            ELSE IF operation.op = "remove"
            THEN JList(SubSeq(doc.s, 1, i) \o SubSeq(doc.s, i + 2, n))
            ELSE JList([doc.s EXCEPT ![i + 1] = operation.value])
    ELSE JsonPatchConflict

RECURSIVE JsonPatch_apply(_, _)
JsonPatch_apply(doc, ops) ==
    IF ops = <<>> THEN doc
    ELSE JsonPatch_apply(apply_operation(doc, Head(ops).path, Head(ops)), Tail(ops))

\* the operations a client finds in what compute_state_delta returned
Operations(event) == IF event = NoneObj THEN <<>> ELSE event.delta

-----------------------------------------------------------------------------
(* Skills and the SkillToolset                                             *)

SkillNames     == {"a", "b"}
NameOrder      == <<"a", "b", "zzz">>          \* the order sorted() uses

Skill(name, state_type, state_namespace) ==
    [name |-> name, state_type |-> state_type, state_namespace |-> state_namespace]

C == "CounterState"
I == "ItemsState"

\* the skills=[...] arguments explored
SkillLists ==
    { <<>>,
      <<Skill("a", C, "shared")>>,
      <<Skill("a", C, "shared"), Skill("b", C, "shared")>>,
      <<Skill("a", C, "shared"), Skill("b", I, "shared")>>,
      <<Skill("b", C, "shared"), Skill("a", I, "shared")>>,
      <<Skill("b", C, "shared"), Skill("a", None, "shared")>>,
      <<Skill("a", C, ""),       Skill("b", C, "")>>,
      <<Skill("a", I, "shared"), Skill("b", C, "")>>,
      <<Skill("a", C, None),     Skill("b", None, None)>>,
      <<Skill("a", C, "shared"), Skill("a", C, "shared")>> }

\* SkillRegistry.names
names(reg) == SelectSeq(NameOrder, LAMBDA n : n \in DOMAIN reg)

\* Python truthiness of `namespace` (a str or None) and of `state`
Truthy(namespace) == namespace # None /\ namespace # ""

\* the smallest object id not in use
FreshId(used) ==
    CHOOSE i \in 1..(Cardinality(used) + 1) :
        i \notin used /\ \A j \in 1..(i - 1) : j \in used

\* SkillToolset._register_skill_state, on st = [ns, keys, heap, raised]
_register_skill_state_overwrite(st, skill) ==
    IF skill.state_type = None \/ skill.state_namespace = None THEN st
    ELSE LET namespace == skill.state_namespace
             id == IF namespace \in DOMAIN st.ns THEN st.ns[namespace]
                   ELSE FreshId(DOMAIN st.heap)
         IN [st EXCEPT !.ns   = (namespace :> id) @@ st.ns,
                       !.keys = IF namespace \in DOMAIN st.ns THEN st.keys
                                ELSE Append(st.keys, namespace),
                       !.heap = (id :> NewState(skill.state_type)) @@ st.heap]

_register_skill_state(st, skill) ==
    IF skill.state_type = None \/ skill.state_namespace = None THEN st
    ELSE LET namespace == skill.state_namespace IN
         IF namespace \in DOMAIN st.ns
         THEN LET existing == st.heap[st.ns[namespace]].type IN
              IF existing # skill.state_type
              THEN [st EXCEPT !.raised = "TypeError"]
              ELSE st
         ELSE LET id == FreshId(DOMAIN st.heap) IN
              [st EXCEPT !.ns   = (namespace :> id) @@ st.ns,
                         !.keys = Append(st.keys, namespace),
                         !.heap = (id :> NewState(skill.state_type)) @@ st.heap]

\* the loop of __init__ over self._registry.names
RECURSIVE register_all(_, _, _)
register_all(st, reg, ns) ==
    IF ns = <<>> \/ st.raised # None THEN st
    ELSE register_all(_register_skill_state(st, reg[Head(ns)]), reg, Tail(ns))

HasDuplicateName(sk) ==
    \E i, j \in 1..Len(sk) : i < j /\ sk[i].name = sk[j].name

EmptySt == [ns |-> << >>, keys |-> <<>>, heap |-> << >>, raised |-> None, done |-> {}]

\* SkillToolset.build_state_snapshot, of a namespace map and a heap
snapshot_of(nsmap, hp) ==
    JObj([ns \in DOMAIN nsmap |-> model_dump(hp[nsmap[ns]])])

build_state_snapshot == snapshot_of(_namespaces, heap)

\* a dict given to restore_state_snapshot: its items() order and its content
Data(order, f) == [order |-> order, data |-> JObj(f)]

SnapshotData == Data(_namespaces_keys, build_state_snapshot.d)

\* SkillToolset.restore_state_snapshot: the loop over data.items(), on
\* st = [ns, keys, heap, raised, done]; model_validate builds a new instance
RECURSIVE restore_loop(_, _, _)
restore_loop(st, data, order) ==
    IF order = <<>> THEN st
    ELSE LET ns == Head(order) IN
         IF ns \notin DOMAIN st.ns THEN restore_loop(st, data, Tail(order))
         ELSE LET model_type == st.heap[st.ns[ns]].type
                  r  == model_validate(model_type, data.d[ns])
                  id == FreshId(DOMAIN st.heap)
              IN IF ~r.ok THEN [st EXCEPT !.raised = "ValidationError"]
                 ELSE restore_loop(
                        [st EXCEPT !.ns   = [st.ns EXCEPT ![ns] = id],
                                   !.heap = (id :> r.obj) @@ st.heap,
                                   !.done = @ \cup {ns}],
                        data, Tail(order))

\* a pydantic-ai tool event of a sub-agent run, and its AG-UI translation
FunctionToolCallEvent(run, id)   == [kind |-> "call",   run |-> run, tool_call_id |-> id]
FunctionToolResultEvent(run, id) == [kind |-> "result", run |-> run, tool_call_id |-> id]

AguiEvent(type, skill_name, ev) ==
    [type |-> type, run |-> ev.run, tool_call_id |-> <<skill_name, ev.tool_call_id>>]

RECURSIVE _events_to_agui_args_first(_, _)
_events_to_agui_args_first(skill_name, events) ==
    IF events = <<>> THEN <<>>
    ELSE LET event == Head(events)
             here  == IF event.kind = "call"
                      THEN <<AguiEvent("TOOL_CALL_ARGS",  skill_name, event),
                             AguiEvent("TOOL_CALL_START", skill_name, event),
                             AguiEvent("TOOL_CALL_END",   skill_name, event)>>
                      ELSE <<AguiEvent("TOOL_CALL_RESULT", skill_name, event)>>
         IN here \o _events_to_agui_args_first(skill_name, Tail(events))

RECURSIVE _events_to_agui(_, _)
_events_to_agui(skill_name, events) ==
    IF events = <<>> THEN <<>>
    ELSE LET event == Head(events)
             here  == IF event.kind = "call"
                      THEN <<AguiEvent("TOOL_CALL_START", skill_name, event),
                             AguiEvent("TOOL_CALL_ARGS",  skill_name, event),
                             AguiEvent("TOOL_CALL_END",   skill_name, event)>>
                      ELSE IF event.kind = "result"
                      THEN <<AguiEvent("TOOL_CALL_RESULT", skill_name, event)>>
                      ELSE <<>>
         IN here \o _events_to_agui(skill_name, Tail(events))

-----------------------------------------------------------------------------
(* The execute_skill calls                                                 *)

ExecIds == 1..MaxCalls

IdleExec ==
    [pc |-> "idle", skill_name |-> None, namespace |-> None, state |-> 0,
     old_snapshot |-> NoneObj, event_sink |-> None, collected_events |-> <<>>,
     tools |-> 0, ret |-> NoneObj,
     \* history, for stating properties:
     mutated |-> FALSE, cause |-> None]

DoneExec == [IdleExec EXCEPT !.pc = "done"]

Str(chunks)                == [kind |-> "str", text |-> chunks]
ToolReturn(text, metadata) == [kind |-> "ToolReturn", text |-> text, metadata |-> metadata]
ErrorStr(e)                == Str(<<"Error: ", e>>)       \* f"Error: {e}"
ResultText                 == <<"done">>

Running(ex) == {e \in DOMAIN ex : ex[e].pc = "running"}

Range(f) == {f[i] : i \in DOMAIN f}

\* The object ids are renumbered after every operation that drops a
\* reference: the namespaces' instances first, in dict order, then the
\* instances only runs in flight still hold.  Identity is what matters, not
\* the number.
RECURSIVE HeldBy(_, _, _)
HeldBy(ex, e, seen) ==
    IF e > MaxCalls THEN seen
    ELSE LET id == IF ex[e].pc = "running" THEN ex[e].state ELSE 0
         IN HeldBy(ex, e + 1,
                   IF id = 0 \/ id \in Range(seen) THEN seen ELSE Append(seen, id))

Normalize(nsmap, keys, hp, ex) ==
    LET order   == HeldBy(ex, 1, [i \in 1..Len(keys) |-> nsmap[keys[i]]])
        ren(id) == IF id = 0 THEN 0 ELSE CHOOSE i \in 1..Len(order) : order[i] = id
    IN [ns    |-> [n \in DOMAIN nsmap |-> ren(nsmap[n])],
        heap  |-> [i \in 1..Len(order) |-> hp[order[i]]],
        execs |-> [e \in DOMAIN ex |->
                     [ex[e] EXCEPT !.state = IF ex[e].pc = "running" THEN ren(@) ELSE 0]]]

\* the operation that produced the current state: its name, the call slot
\* it belongs to, the namespaces it snapshotted or restored, the record of
\* the execute_skill call that just ended, and whether it restored the
\* toolset's own snapshot
Op(op, by, touched) ==
    [op |-> op, by |-> by, touched |-> touched, x |-> NoneObj, own |-> FALSE]

\* what the tools of the test-suite do to deps.state
CanMutate(obj) ==
    IF obj.type = "CounterState" THEN obj.count < MaxCount
    ELSE Len(obj.items) < MaxItems

Mutate(obj) ==
    IF obj.type = "CounterState" THEN [obj EXCEPT !.count = @ + 1]
    ELSE [obj EXCEPT !.items = Append(@, "x")]

\* dicts a caller passes to restore_state_snapshot
MixedDoc(count, items) == JObj([count |-> count, items |-> JList(items)])

RestoreInputs ==
    { Data(<<"unknown">>, [unknown |-> JObj([x |-> JInt(1)])]),
      Data(<<"shared">>,  [shared |-> MixedDoc(JStr("1"), <<JStr("x")>>)]),
      Data(<<"shared">>,  [shared |-> JObj(EmptyDict)]),
      Data(<<"", "shared">>,
           ("" :> MixedDoc(JInt(1), <<>>))
           @@ ("shared" :> MixedDoc(JList(<<>>), <<JInt(1)>>))) }

\* the dict objects ctx.deps.state carries, one per AG-UI request; the index
\* is the identity of the dict
DepsStates ==
    << Data(<<>>, EmptyDict),
       Data(<<"shared">>, [shared |-> MixedDoc(JInt(1), <<JStr("x")>>)]),
       Data(<<"shared">>, [shared |-> MixedDoc(JInt(0), <<>>)]) >>

-----------------------------------------------------------------------------
(* Spec: the SkillToolset and its state namespaces, no sink attached       *)

DeltaIdle  == old = NoneObj /\ new = NoneObj /\ delta = NoneObj
CallIdle   == input = NoneObj /\ output = NoneObj
RunIdle    == messages = <<>> /\ requests = 0 /\ run_pc = "none" /\ run_output = None
TasksIdle  == _tasks = << >> /\ _counter = 0 /\ issued = <<>>
OrchIdle   ==
    /\ orchestrator_state = NoneObj /\ coro = <<>> /\ _semaphore = 0
    /\ orch_pc = "none" /\ synthesize_calls = 0
StreamsIdle == streams = <<>>
RestIdle   == CallIdle /\ RunIdle /\ TasksIdle /\ OrchIdle /\ StreamsIdle
StreamIdle ==
    /\ stream_pc = "none" /\ _queue = <<>> /\ _task = "none"
    /\ adapter_items = <<>> /\ adapter_i = 0
    /\ received = <<>> /\ enqueued = <<>>

\* before SkillToolset(skills=...) runs
NewToolset ==
    /\ ctor = "new"
    /\ _registry = << >>
    /\ _namespaces = << >>
    /\ _namespaces_keys = <<>>
    /\ heap = << >>
    /\ _last_restored_state = 0
    /\ _event_sink = None
    /\ execs = [e \in ExecIds |-> IdleExec]
    /\ sinked = <<>>
    /\ lastOp = Op("other", 0, {})
    /\ restored_dicts = {}

Init ==
    /\ skills \in SkillLists
    /\ NewToolset
    /\ DeltaIdle
    /\ RestIdle
    /\ StreamIdle

\* SkillToolset.__init__(skills=skills)
Construct ==
    /\ ctor = "new"
    /\ lastOp' = Op("__init__", 0, {})
    /\ IF HasDuplicateName(skills)
       THEN /\ ctor' = "ValueError"
            /\ UNCHANGED <<_registry, _namespaces, _namespaces_keys, heap>>
       ELSE LET reg == [n \in {skills[i].name : i \in 1..Len(skills)} |->
                          skills[CHOOSE i \in 1..Len(skills) : skills[i].name = n]]
                st  == register_all(EmptySt, reg, names(reg))
            IN IF st.raised # None
               THEN /\ ctor' = st.raised
                    /\ UNCHANGED <<_registry, _namespaces, _namespaces_keys, heap>>
               ELSE /\ ctor' = "ready"
                    /\ _registry' = reg
                    /\ _namespaces' = st.ns
                    /\ _namespaces_keys' = st.keys
                    /\ heap' = st.heap
    /\ UNCHANGED <<restored_dicts, skills, _last_restored_state, _event_sink, execs, sinked>>
    /\ UNCHANGED <<restVars, deltaVars, streamVars>>

\* the effect of restore_state_snapshot(d) on the namespaces and the heap
Restored_resets_absent(d) ==
    LET st == restore_loop([ns |-> _namespaces, keys |-> _namespaces_keys,
                            heap |-> heap, raised |-> None, done |-> {}],
                           d.data, d.order)
        absent == {st.ns[ns] : ns \in DOMAIN st.ns \ Keys(d.data)}
    IN [st EXCEPT !.heap = [i \in DOMAIN st.heap |->
                              IF i \in absent THEN NewState(st.heap[i].type)
                              ELSE st.heap[i]]]

Restored(d) ==
    restore_loop([ns |-> _namespaces, keys |-> _namespaces_keys, heap |-> heap,
                  raised |-> None, done |-> {}],
                 d.data, d.order)

\* SkillToolset.restore_state_snapshot(data), called by the application
restore_state_snapshot(d) ==
    /\ ctor = "ready"
    /\ LET st == Restored(d)
           nz == Normalize(st.ns, _namespaces_keys, st.heap, execs)
       IN /\ _namespaces' = nz.ns
          /\ heap' = nz.heap
          /\ execs' = nz.execs
          /\ lastOp' = [Op("restore_state_snapshot", 0, st.done) EXCEPT
                           !.own = (d = SnapshotData)]
    /\ UNCHANGED <<restored_dicts, skills, ctor, _registry, _namespaces_keys,
                   _last_restored_state, _event_sink, sinked>>
    /\ UNCHANGED <<restVars, deltaVars, streamVars>>

\* what ctx.deps is in a call of get_tools: None, an object without a state
\* attribute, an object whose state is no dict, or an object whose state is
\* the dict object DepsStates[dep]
NoDeps           == 0
DepsWithoutState == 0 - 1
NonDictState     == 0 - 2
DepsInputs       == {NoDeps, DepsWithoutState, NonDictState} \cup DOMAIN DepsStates

\* SkillToolset._maybe_restore_state: does it go on to restore_state_snapshot
_maybe_restore_state(dep) ==
    /\ dep \notin {NoDeps, DepsWithoutState, NonDictState}
    /\ Keys(DepsStates[dep].data) # {}
    /\ dep # _last_restored_state

\* SkillToolset.get_tools(ctx)
get_tools(dep) ==
    /\ ctor = "ready"
    /\ IF ~_maybe_restore_state(dep)
       THEN /\ lastOp' = Op("other", 0, {})
            /\ UNCHANGED <<_namespaces, heap, _last_restored_state, execs,
                           restored_dicts>>
       ELSE LET st == Restored(DepsStates[dep])
                nz == Normalize(st.ns, _namespaces_keys, st.heap, execs)
            IN /\ _last_restored_state' = dep
               /\ restored_dicts' = restored_dicts \cup {dep}
               /\ _namespaces' = nz.ns
               /\ heap' = nz.heap
               /\ execs' = nz.execs
               /\ lastOp' = Op("get_tools", 0, st.done)
    /\ UNCHANGED <<skills, ctor, _registry, _namespaces_keys, _event_sink, sinked>>
    /\ UNCHANGED <<restVars, deltaVars, streamVars>>

\* toolset._event_sink = sink / = None, assigned from outside the toolset
SetEventSink(sink) ==
    /\ ctor = "ready"
    /\ _event_sink # sink
    /\ _event_sink' = sink
    /\ lastOp' = Op("other", 0, {})
    /\ UNCHANGED <<restored_dicts, skills, ctor, _registry, _namespaces, _namespaces_keys, heap,
                   _last_restored_state, execs, sinked>>
    /\ UNCHANGED <<restVars, deltaVars, streamVars>>

\* asyncio.Queue.put_nowait on the stream's unbounded queue, once per item
put_nowait_front(q, items) == items \o q

put_nowait(q, items) == q \o items

\* calling the sink an execution captured, once per event of evs
Deliver(sink, evs) ==
    IF sink = "sink"               \* a sink that keeps what it is given
    THEN sinked' = sinked \o evs /\ UNCHANGED <<_queue, enqueued>>
    ELSE IF sink = "stream"        \* the closure __aenter__ installed
    THEN /\ _queue' = put_nowait(_queue, evs)
         /\ enqueued' = enqueued \o evs
         /\ UNCHANGED sinked
    ELSE UNCHANGED <<sinked, _queue, enqueued>>

\* _run_skill.event_handler on the events of one step of the run of x:
\* what it leaves in collected_events and what it sends to the sink
event_handler_reversed(x, events) ==
    LET out == _events_to_agui(x.skill_name, events)
    IN [collected |-> IF x.event_sink # None THEN x.collected_events
                      ELSE x.collected_events \o events,
        to_sink   |-> IF x.event_sink # None
                      THEN [i \in 1..Len(out) |-> out[Len(out) + 1 - i]] ELSE <<>>]

event_handler_both(x, events) ==
    [collected |-> x.collected_events \o events,
     to_sink   |-> IF x.event_sink # None
                   THEN _events_to_agui(x.skill_name, events) ELSE <<>>]

event_handler(x, events) ==
    [collected |-> IF x.event_sink # None THEN x.collected_events
                   ELSE x.collected_events \o events,
     to_sink   |-> IF x.event_sink # None
                   THEN _events_to_agui(x.skill_name, events) ELSE <<>>]

\* the except clause of execute_skill: return f"Error: {e}"
except_Exception_reraise(x, cause, message) ==
    [x EXCEPT !.pc = "raised", !.cause = cause]

except_Exception(x, cause, message) ==
    [x EXCEPT !.pc = "returned", !.cause = cause, !.ret = ErrorStr(message)]

\* execute_skill, lines 379-399: up to the await of _run_skill
execute_skill_call(e, skill_name) ==
    /\ ctor = "ready"
    /\ execs[e].pc = "idle"
    /\ \A f \in ExecIds : f < e => execs[f].pc # "idle"
    /\ IF skill_name \notin DOMAIN _registry
       THEN /\ execs' = [execs EXCEPT ![e] = DoneExec]
            /\ lastOp' = [Op("execute_skill", e, {}) EXCEPT
                  !.x = [IdleExec EXCEPT !.pc = "returned",
                            !.skill_name = skill_name, !.cause = "unknown",
                            !.ret = ErrorStr("Skill not found in registry")]]
       ELSE LET skill     == _registry[skill_name]
                namespace == skill.state_namespace
                state     == IF Truthy(namespace) /\ namespace \in DOMAIN _namespaces
                             THEN _namespaces[namespace] ELSE 0
                old_snapshot ==
                    IF Truthy(namespace) /\ state # 0
                    THEN JObj(namespace :> model_dump(heap[state]))
                    ELSE NoneObj
            IN /\ execs' = [execs EXCEPT ![e] =
                     [@ EXCEPT !.pc = "running", !.skill_name = skill_name,
                               !.namespace = namespace, !.state = state,
                               !.old_snapshot = old_snapshot,
                               !.event_sink = _event_sink]]
               /\ lastOp' = Op("execute_skill", e,
                               IF old_snapshot # NoneObj THEN {namespace} ELSE {})
    /\ UNCHANGED <<restored_dicts, skills, ctor, _registry, _namespaces, _namespaces_keys, heap,
                   _last_restored_state, _event_sink, sinked>>
    /\ UNCHANGED <<restVars, deltaVars, streamVars>>

\* execute_skill has ended with final record y: the slot is done and the
\* references the call held are dropped
Ended(e, y, hp) ==
    LET nz == Normalize(_namespaces, _namespaces_keys, hp,
                        [execs EXCEPT ![e] = DoneExec])
    IN /\ execs' = nz.execs
       /\ heap' = nz.heap
       /\ _namespaces' = nz.ns
       /\ lastOp' = [Op("execute_skill_end", e,
                        IF y.cause = "ok" /\ y.old_snapshot # NoneObj
                           /\ Truthy(y.namespace) /\ y.state # 0
                        THEN {y.namespace} ELSE {})
                     EXCEPT !.x = y]

\* one tool call of the sub-agent run of e: the call event, the tool itself
\* (it leaves deps.state alone, changes it in place, or raises) and, unless
\* it raised, the result event
tool_call(e, effect) ==
    /\ execs[e].pc = "running"
    /\ execs[e].tools < MaxTools
    /\ effect = "mutate" =>
           execs[e].state # 0 /\ CanMutate(heap[execs[e].state])
    /\ LET x      == execs[e]
           id     == x.tools + 1
           events == IF effect = "raise"
                     THEN <<FunctionToolCallEvent(e, id)>>
                     ELSE <<FunctionToolCallEvent(e, id),
                            FunctionToolResultEvent(e, id)>>
           h      == event_handler(x, events)
           y      == [x EXCEPT !.tools = id,
                               !.collected_events = h.collected,
                               !.mutated = @ \/ effect = "mutate"]
       IN /\ Deliver(x.event_sink, h.to_sink)
          /\ IF effect = "raise"
             THEN Ended(e, except_Exception(y, "tool", "boom"), heap)
             ELSE /\ execs' = [execs EXCEPT ![e] = y]
                  /\ heap' = IF effect = "mutate"
                             THEN [heap EXCEPT ![x.state] = Mutate(@)]
                             ELSE heap
                  /\ lastOp' = Op("other", 0, {})
                  /\ UNCHANGED _namespaces
    /\ UNCHANGED <<restored_dicts, skills, ctor, _registry, _namespaces_keys,
                   _last_restored_state, _event_sink>>
    /\ UNCHANGED <<restVars, deltaVars, stream_pc, _task, adapter_items, adapter_i, received>>

\* agent.run of the sub-agent raises (a model error, the request limit)
run_fails(e) ==
    /\ execs[e].pc = "running"
    /\ Ended(e, except_Exception(execs[e], "run", "run failed"), heap)
    /\ UNCHANGED <<restored_dicts, skills, ctor, _registry, _namespaces_keys,
                   _last_restored_state, _event_sink, sinked>>
    /\ UNCHANGED <<restVars, deltaVars, streamVars>>

\* execute_skill, lines 408-420: what it returns once _run_skill returned
execute_skill_return(x, hp) ==
    LET events   == IF x.event_sink = None
                    THEN _events_to_agui(x.skill_name, x.collected_events)
                    ELSE <<>>
        has      == x.old_snapshot # NoneObj /\ Truthy(x.namespace) /\ x.state # 0
        d        == IF has
                    THEN compute_state_delta(
                             x.old_snapshot,
                             JObj(x.namespace :> model_dump(hp[x.state])))
                    ELSE NoneObj
        metadata == IF d # NoneObj THEN Append(events, d) ELSE events
    IN IF metadata # <<>> THEN ToolReturn(ResultText, metadata) ELSE Str(ResultText)

\* the sub-agent run of e completes and execute_skill returns
run_completes(e) ==
    /\ execs[e].pc = "running"
    /\ Ended(e, [execs[e] EXCEPT !.pc = "returned", !.cause = "ok",
                                 !.ret = execute_skill_return(execs[e], heap)],
             heap)
    /\ UNCHANGED <<restored_dicts, skills, ctor, _registry, _namespaces_keys,
                   _last_restored_state, _event_sink, sinked>>
    /\ UNCHANGED <<restVars, deltaVars, streamVars>>

ToolEffects == {"noop", "mutate", "raise"}

Next ==
    \/ Construct
    \/ \E d \in RestoreInputs \cup {SnapshotData} : restore_state_snapshot(d)
    \/ \E dep \in {NoDeps, 1, 2} : get_tools(dep)
    \/ \E e \in ExecIds, n \in SkillNames \cup {"zzz"} : execute_skill_call(e, n)
    \/ \E e \in ExecIds, effect \in ToolEffects : tool_call(e, effect)
    \/ \E e \in ExecIds : run_fails(e)
    \/ \E e \in ExecIds : run_completes(e)

Spec == Init /\ [][Next]_vars

-----------------------------------------------------------------------------
(* SpecCalls: the execute_skill calls an agent makes on one toolset whose   *)
(* two skills share a namespace; calls of one model response run at the    *)
(* same time, and the caller attaches and detaches a sink (one that keeps  *)
(* what it receives) at any moment                                         *)

InitCalls ==
    /\ skills = <<Skill("a", C, "shared"), Skill("b", C, "shared")>>
    /\ NewToolset
    /\ DeltaIdle
    /\ RestIdle
    /\ StreamIdle

NextCalls ==
    \/ Construct
    \/ \E sink \in {None, "sink"} : SetEventSink(sink)
    \/ \E e \in ExecIds, n \in SkillNames \cup {"zzz"} : execute_skill_call(e, n)
    \/ \E e \in ExecIds, effect \in ToolEffects : tool_call(e, effect)
    \/ \E e \in ExecIds : run_fails(e)
    \/ \E e \in ExecIds : run_completes(e)

SpecCalls == InitCalls /\ [][NextCalls]_vars

-----------------------------------------------------------------------------
(* SpecSequentialCalls: the execute_skill calls of an agent that makes one *)
(* tool call per model response on the toolset of SpecCalls: a call begins *)
(* when the one before it has returned, and nothing restores the state.    *)

\* the agent's next execute_skill call
next_execute_skill(e, skill_name) ==
    /\ Running(execs) = {}
    /\ execute_skill_call(e, skill_name)

NextSequentialCalls ==
    \/ Construct
    \/ \E sink \in {None, "sink"} : SetEventSink(sink)
    \/ \E e \in ExecIds, n \in SkillNames \cup {"zzz"} : next_execute_skill(e, n)
    \/ \E e \in ExecIds, effect \in ToolEffects : tool_call(e, effect)
    \/ \E e \in ExecIds : run_fails(e)
    \/ \E e \in ExecIds : run_completes(e)

SpecSequentialCalls == InitCalls /\ [][NextSequentialCalls]_vars

-----------------------------------------------------------------------------
(* SpecRegistry: the SkillRegistry of a toolset, filled by __init__ from   *)
(* the skills passed in, the skill paths and the entrypoints, then used    *)
(* through register, discover and activate.  The skills declare no state.  *)

\* a Skill of the registry; origin tells the objects apart: passed in by
\* the caller, made by an entrypoint factory, or loaded from a directory
SkillAt(name, origin, source, path, instructions, tools) ==
    [name |-> name, origin |-> origin, source |-> source, path |-> path,
     instructions |-> instructions, tools |-> tools,
     state_type |-> None, state_namespace |-> None]

\* the skill directories under the fixtures path of the tests
SkillDirs == <<"simple-skill", "skill-with-refs">>      \* sorted(path.iterdir())

Body(dir) == IF dir = "simple-skill" THEN "# Simple Skill" ELSE "# Skill With Refs"

\* parse_skill_md(dir / "SKILL.md"): the name of the frontmatter and the body
parse_skill_md(dir) == [name |-> dir, body |-> Body(dir)]

\* discover_script_tools(dir): a tool per script of dir/scripts, by name
discover_script_tools(dir) == IF dir = "simple-skill" THEN <<"greet">> ELSE <<>>

_load_skill_from_directory(dir) ==
    LET parsed == parse_skill_md(dir)
    IN SkillAt(parsed.name, "discovered", "filesystem", dir, parsed.body,
               discover_script_tools(dir))

\* discover_from_paths(paths), paths being the fixtures path or nothing
discover_from_paths(paths) ==
    IF paths = <<>> THEN <<>>
    ELSE [i \in 1..Len(SkillDirs) |-> _load_skill_from_directory(SkillDirs[i])]

\* discover_from_entrypoints(): one entrypoint, whose factory makes "memory"
discover_from_entrypoints ==
    <<SkillAt("memory", "entrypoint", "entrypoint", None, None, <<>>)>>

\* the skills a caller constructs and passes in
ManualSkills ==
    { SkillAt("memory", "manual", "filesystem", None, "Custom instructions.", <<>>),
      SkillAt("simple-skill", "manual", "filesystem", "simple-skill", None, <<>>),
      SkillAt("test-skill", "manual", "filesystem", None, None, <<>>) }

ManualLists == {<<>>} \cup {<<m>> : m \in ManualSkills}

\* SkillRegistry.register, on st = [reg, raised]
register_overwrite(st, skill) ==
    [st EXCEPT !.reg = (skill.name :> skill) @@ st.reg]

register(st, skill) ==
    IF skill.name \in DOMAIN st.reg
    THEN [st EXCEPT !.raised = "ValueError"]
    ELSE [st EXCEPT !.reg = (skill.name :> skill) @@ st.reg]

\* a loop that registers the skills of a list, up to the first that raises
RECURSIVE register_each(_, _)
register_each(st, list) ==
    IF list = <<>> \/ st.raised # None THEN st
    ELSE register_each(register(st, Head(list)), Tail(list))

\* SkillRegistry.discover(paths, use_entrypoints)
discover(st, paths, use_entrypoints) ==
    LET st1 == IF paths # <<>> THEN register_each(st, discover_from_paths(paths))
               ELSE st
    IN IF use_entrypoints
       THEN register_each(st1, discover_from_entrypoints)
       ELSE st1

\* SkillRegistry.activate(name)
activate(st, name) ==
    IF name \notin DOMAIN st.reg THEN [st EXCEPT !.raised = "KeyError"]
    ELSE LET skill == st.reg[name] IN
         IF skill.instructions # None THEN st
         ELSE IF skill.path = None THEN st
         ELSE [st EXCEPT !.reg[name].instructions = parse_skill_md(skill.path).body]

RegistryFrame ==
    UNCHANGED <<restored_dicts, skills, _namespaces, _namespaces_keys, heap,
                _last_restored_state, _event_sink, execs, sinked,
                deltaVars, streamVars, restVars>>

\* the result of a registry operation, kept with the operation
RegistryOp(op, arg, st) ==
    [Op(op, 0, {}) EXCEPT !.x = [raised |-> st.raised, arg |-> arg]]

\* SkillToolset(skills=skills, skill_paths=..., use_entrypoints=...)
ConstructDiscovering(skill_paths, use_entrypoints) ==
    /\ ctor = "new"
    /\ LET st0 == register_each([reg |-> << >>, raised |-> None], skills)
           st1 == IF skill_paths # <<>> /\ st0.raised = None
                  THEN discover(st0, skill_paths, FALSE) ELSE st0
           st2 == IF use_entrypoints /\ st1.raised = None
                  THEN discover(st1, <<>>, TRUE) ELSE st1
       IN /\ ctor' = IF st2.raised # None THEN st2.raised ELSE "ready"
          /\ _registry' = IF st2.raised # None THEN _registry ELSE st2.reg
          /\ lastOp' = RegistryOp("__init__",
                                  [skill_paths |-> skill_paths,
                                   use_entrypoints |-> use_entrypoints], st2)
    /\ RegistryFrame

\* toolset.registry.register(skill)
Register(skill) ==
    /\ ctor = "ready"
    /\ LET st == register([reg |-> _registry, raised |-> None], skill)
       IN /\ _registry' = st.reg
          /\ lastOp' = RegistryOp("register", skill, st)
    /\ UNCHANGED ctor
    /\ RegistryFrame

\* toolset.registry.discover(paths, use_entrypoints)
Discover(paths, use_entrypoints) ==
    /\ ctor = "ready"
    /\ LET st == discover([reg |-> _registry, raised |-> None], paths, use_entrypoints)
       IN /\ _registry' = st.reg
          /\ lastOp' = RegistryOp("discover",
                                  [skill_paths |-> paths,
                                   use_entrypoints |-> use_entrypoints], st)
    /\ UNCHANGED ctor
    /\ RegistryFrame

\* toolset.registry.activate(name)
Activate(name) ==
    /\ ctor = "ready"
    /\ LET st == activate([reg |-> _registry, raised |-> None], name)
       IN /\ _registry' = st.reg
          /\ lastOp' = RegistryOp("activate", name, st)
    /\ UNCHANGED ctor
    /\ RegistryFrame

FixturesPath == <<"fixtures">>

RegistryNames == {"memory", "simple-skill", "skill-with-refs", "test-skill", "unknown"}

InitRegistry ==
    /\ skills \in ManualLists
    /\ NewToolset
    /\ DeltaIdle
    /\ RestIdle
    /\ StreamIdle

NextRegistry ==
    \/ \E skill_paths \in {<<>>, FixturesPath}, use_entrypoints \in BOOLEAN :
           ConstructDiscovering(skill_paths, use_entrypoints)
    \/ \E skill \in ManualSkills : Register(skill)
    \/ \E paths \in {<<>>, FixturesPath}, use_entrypoints \in BOOLEAN :
           Discover(paths, use_entrypoints)
    \/ \E name \in RegistryNames : Activate(name)

SpecRegistry == InitRegistry /\ [][NextRegistry]_vars

-----------------------------------------------------------------------------
(* SpecResources: the read_resource tool bound to a skill whose directory  *)
(* is /tmp/my-skill.  A path is the sequence of its components.            *)

SkillRoot == <<"tmp", "my-skill">>                      \* skill.path

\* the regular files of the filesystem, by absolute path
Files ==
    (<<"tmp", "my-skill", "ref.md">> :> [text |-> TRUE, content |-> "Reference Guide"])
    @@ (<<"tmp", "my-skill", "data.bin">> :> [text |-> FALSE, content |-> "bytes"])
    @@ (<<"tmp", "secret.txt">> :> [text |-> TRUE, content |-> "secret"])
    @@ (<<"etc", "passwd">> :> [text |-> TRUE, content |-> "root:x:0:0"])

\* the symbolic links of the filesystem, with their targets
Symlinks ==
    (<<"tmp", "my-skill", "escape.txt">> :> <<"tmp", "secret.txt">>)
    @@ (<<"tmp", "my-skill", "alias.md">> :> <<"tmp", "my-skill", "ref.md">>)

\* the relative paths a caller declares as resources or asks for
ResourcePaths ==
    { <<"ref.md">>, <<".", "ref.md">>, <<"alias.md">>, <<"data.bin">>,
      <<"escape.txt">>, <<"unknown.txt">>, <<"..", "secret.txt">>,
      <<"..", "..", "..", "etc", "passwd">> }

\* Path.resolve(): done is resolved, rest is still to walk
RECURSIVE resolve(_, _)
resolve(done, rest) ==
    IF rest = <<>> THEN done
    ELSE LET c == Head(rest) IN
         IF c = ".."
         THEN resolve(IF done = <<>> THEN <<>> ELSE SubSeq(done, 1, Len(done) - 1),
                      Tail(rest))
         ELSE IF c = "." THEN resolve(done, Tail(rest))
         ELSE LET p == Append(done, c) IN
              IF p \in DOMAIN Symlinks
              THEN resolve(<<>>, Symlinks[p] \o Tail(rest))
              ELSE resolve(p, Tail(rest))

is_relative_to_anything(path, root) == TRUE

\* PurePath.is_relative_to(root)
is_relative_to(path, root) ==
    /\ Len(root) <= Len(path)
    /\ SubSeq(path, 1, Len(root)) = root

\* await read_resource(path), of _create_read_resource(skills[1])
read_resource(path) ==
    /\ skills[1].path # None
    /\ LET resolved == resolve(<<>>, skills[1].path \o path)
           result ==
               IF path \notin skills[1].resources
               THEN [returned |-> None, raised |-> "not an available resource"]
               ELSE IF ~is_relative_to(resolved, resolve(<<>>, skills[1].path))
               THEN [returned |-> None, raised |-> "not an available resource"]
               ELSE IF resolved \notin DOMAIN Files
               THEN [returned |-> None, raised |-> "FileNotFoundError"]
               ELSE IF ~Files[resolved].text
               THEN [returned |-> None, raised |-> "not a text file"]
               ELSE [returned |-> Files[resolved].content, raised |-> None]
       IN lastOp' = [Op("read_resource", 0, {}) EXCEPT
                        !.x = [path |-> path, returned |-> result.returned,
                               raised |-> result.raised]]
    /\ UNCHANGED <<ctor, _registry>>
    /\ RegistryFrame

InitResources ==
    /\ \E resources \in SUBSET ResourcePaths :
           skills = << [name |-> "my-skill", path |-> SkillRoot,
                        resources |-> resources,
                        state_type |-> None, state_namespace |-> None] >>
    /\ NewToolset
    /\ DeltaIdle
    /\ RestIdle
    /\ StreamIdle

NextResources == \E path \in ResourcePaths : read_resource(path)

SpecResources == InitResources /\ [][NextResources]_vars

-----------------------------------------------------------------------------
(* SpecNames: SkillMetadata(name=...).  A name is the sequence of its      *)
(* characters; a character is written by its name.                         *)

min_length == 1
max_length == 64

\* the characters names are made of here: a letter, a digit, the hyphen,
\* an uppercase letter, an accented letter in both cases, the fullwidth
\* compatibility form of "a", and the underscore
NameChars == {"a", "1", "-", "A", "e_acute", "E_acute", "fullwidth_a", "_"}

Repeat(c, n) == [i \in 1..n |-> c]

NameInputs ==
    UNION {[1..n -> NameChars] : n \in 0..MaxNameLen}
    \cup { Repeat("a", max_length), Repeat("a", max_length + 1),
           Repeat("a", max_length - 1) \o <<"-">>,
           <<"a", "-">> \o Repeat("1", max_length - 2),
           <<"a", "-", "-">> \o Repeat("1", max_length - 3),
           Repeat("A", max_length + 1) }

\* unicodedata.normalize("NFKC", name)
NFKC(name) == [i \in 1..Len(name) |-> IF name[i] = "fullwidth_a" THEN "a" ELSE name[i]]

\* str.lower()
lower(name) ==
    [i \in 1..Len(name) |-> IF name[i] = "A" THEN "a"
                            ELSE IF name[i] = "E_acute" THEN "e_acute"
                            ELSE name[i]]

\* str.isalnum() of one character
isalnum(c) == c \in {"a", "1", "A", "e_acute", "E_acute", "fullwidth_a"}

Returned(value) == [raised |-> None, value |-> value]
Raised(what)    == [raised |-> what, value |-> <<>>]

_validate_skill_name_hyphens_unchecked(name0) ==
    LET name == NFKC(name0) IN
    IF name # lower(name) THEN Raised("name must be lowercase")
    ELSE IF \E i \in 1..Len(name) : ~(isalnum(name[i]) \/ name[i] = "-")
    THEN Raised("name must contain only lowercase alphanumeric characters and hyphens")
    ELSE Returned(name)

_validate_skill_name(name0) ==
    LET name == NFKC(name0) IN
    IF name # lower(name) THEN Raised("name must be lowercase")
    ELSE IF name # <<>> /\ (Head(name) = "-" \/ name[Len(name)] = "-")
    THEN Raised("name must not start or end with a hyphen")
    ELSE IF \E i \in 1..(Len(name) - 1) : name[i] = "-" /\ name[i + 1] = "-"
    THEN Raised("name must not contain consecutive hyphens")
    ELSE IF \E i \in 1..Len(name) : ~(isalnum(name[i]) \/ name[i] = "-")
    THEN Raised("name must contain only lowercase alphanumeric characters and hyphens")
    ELSE Returned(name)

\* SkillMetadata(name=v, ...): the length constraints of the field, then
\* validate_name; pydantic reports either failure as a ValidationError
SkillMetadata_name(v) ==
    IF Len(v) < min_length \/ Len(v) > max_length THEN Raised("ValidationError")
    ELSE LET r == _validate_skill_name(v)
         IN IF r.raised # None THEN Raised("ValidationError") ELSE r

Pending == [k |-> "pending"]

InitNames ==
    /\ input \in NameInputs
    /\ output = Pending
    /\ skills = <<>>
    /\ NewToolset
    /\ DeltaIdle /\ StreamIdle /\ RunIdle /\ TasksIdle /\ OrchIdle /\ StreamsIdle

validate_name ==
    /\ output = Pending
    /\ output' = SkillMetadata_name(input)
    /\ UNCHANGED <<input, toolsetVars, deltaVars, streamVars, runVars, taskVars, orchVars, streamsVars>>

SpecNames == InitNames /\ [][validate_name]_vars

-----------------------------------------------------------------------------
(* SpecSkillMd: the allowed-tools header of a SKILL.md, as yaml.safe_load  *)
(* gives it to parse_skill_md: absent, a string or a list of strings.  A   *)
(* string is the sequence of its characters.                               *)

HeaderChars == {"r", "w", " "}
HeaderWords == {<<"r">>, <<"w">>, <<"r", "w">>, <<"w", "r">>}

AllowedToolsStrings ==
    {[kind |-> "str", value |-> v] :
         v \in UNION {[1..n -> HeaderChars] : n \in 0..MaxHeaderLen}}

AllowedToolsLists ==
    {[kind |-> "list", value |-> v] :
         v \in UNION {[1..n -> HeaderWords] : n \in 0..2}}

\* str.split(): the maximal runs of characters that are not whitespace
RECURSIVE split(_, _)
split(v, word) ==
    IF v = <<>> THEN (IF word = <<>> THEN <<>> ELSE <<word>>)
    ELSE IF Head(v) = " "
         THEN (IF word = <<>> THEN <<>> ELSE <<word>>) \o split(Tail(v), <<>>)
         ELSE split(Tail(v), Append(word, Head(v)))

\* str.strip()
RECURSIVE strip(_)
strip(v) ==
    IF v = <<>> THEN v
    ELSE IF Head(v) = " " THEN strip(Tail(v))
    ELSE IF v[Len(v)] = " " THEN strip(SubSeq(v, 1, Len(v) - 1))
    ELSE v

\* SkillMetadata.validate_allowed_tools, on a str or a list
validate_allowed_tools(kind, v) ==
    IF kind = "str" THEN (IF strip(v) # <<>> THEN split(v, <<>>) ELSE <<>>)
    ELSE v

\* parse_skill_md, from frontmatter.pop("allowed-tools", None) on; a list
\* has no split attribute
parse_allowed_tools(raw) ==
    IF raw.kind = "absent" \/ raw.value = <<>>
    THEN Returned(validate_allowed_tools("list", <<>>))
    ELSE IF raw.kind = "str"
    THEN Returned(validate_allowed_tools("list", split(raw.value, <<>>)))
    ELSE Raised("AttributeError")

InitSkillMd ==
    /\ \/ input = [kind |-> "absent", value |-> <<>>]
       \/ input \in AllowedToolsStrings
       \/ input \in AllowedToolsLists
    /\ output = Pending
    /\ skills = <<>>
    /\ NewToolset
    /\ DeltaIdle /\ StreamIdle /\ RunIdle /\ TasksIdle /\ OrchIdle /\ StreamsIdle

ParseSkillMd ==
    /\ output = Pending
    /\ output' = parse_allowed_tools(input)
    /\ UNCHANGED <<input, toolsetVars, deltaVars, streamVars, runVars, taskVars, orchVars, streamsVars>>

SpecSkillMd == InitSkillMd /\ [][ParseSkillMd]_vars

-----------------------------------------------------------------------------
(* SpecRun: the sub-agent run of one execute_skill call: agent.run with    *)
(* UsageLimits(request_limit=20), its message history, and what            *)
(* _run_skill and execute_skill return.                                    *)

request_limit == 20

UserPromptPart  == [part_kind |-> "user-prompt", type |-> "str", s |-> "request", n |-> 0]
RetryPromptPart == [part_kind |-> "retry-prompt", type |-> "str", s |-> "retry", n |-> 0]
ToolCallPart    == [part_kind |-> "tool-call", type |-> "str", s |-> "", n |-> 0]
TextPart(text)  == [part_kind |-> "text", type |-> "str", s |-> text, n |-> 0]
\* a tool returned the str text
ToolReturnPart(text) == [part_kind |-> "tool-return", type |-> "str", s |-> text, n |-> 0]
\* a tool returned the int number
ToolReturnPartInt(number) ==
    [part_kind |-> "tool-return", type |-> "int", s |-> "", n |-> number]

ModelRequest(parts)  == [kind |-> "request", parts |-> parts]
ModelResponse(parts) == [kind |-> "response", parts |-> parts]

\* the parts of the request that follows one round of tool calls
ToolRounds ==
    { <<ToolReturnPart("")>>, <<ToolReturnPart("r1")>>, <<ToolReturnPartInt(0)>>,
      <<ToolReturnPart("r1"), ToolReturnPart("r2")>>,
      <<ToolReturnPart("r2"), RetryPromptPart>>, <<RetryPromptPart>> }

\* ToolReturnPart.model_response_str(): a str as it is, else its JSON
model_response_str(part) == IF part.type = "str" THEN part.s ELSE ToString(part.n)

\* _last_tool_result: None when the messages hold no tool return
RECURSIVE _last_tool_result(_)
_last_tool_result(msgs) ==
    IF msgs = <<>> THEN None
    ELSE LET message == msgs[Len(msgs)]
             at == IF message.kind = "request"
                   THEN {i \in 1..Len(message.parts) :
                             message.parts[i].part_kind = "tool-return"}
                   ELSE {}
         IN IF at = {} THEN _last_tool_result(SubSeq(msgs, 1, Len(msgs) - 1))
            ELSE model_response_str(
                     message.parts[CHOOSE i \in at : \A j \in at : j <= i])

check_before_request_unlimited(n) == FALSE

\* UsageLimits(request_limit=20): whether the next request, after n made,
\* would exceed the limit
check_before_request(n) == n >= request_limit

\* a or b, on str | None
Or(a, b) == IF a # None /\ a # "" THEN a ELSE b

\* execute_skill awaits _run_skill, which awaits agent.run(request, ...)
agent_run ==
    /\ run_pc = "none"
    /\ run_pc' = "running"
    /\ messages' = <<ModelRequest(<<UserPromptPart>>)>>
    /\ requests' = 0
    /\ UNCHANGED <<run_output, output>>
    /\ UNCHANGED <<input, toolsetVars, deltaVars, streamVars, taskVars, orchVars, streamsVars>>

\* a model request answered with tool calls; the tools run and return
model_requests_tools(parts) ==
    /\ run_pc = "running"
    /\ ~check_before_request(requests)
    /\ requests < MaxRounds \/ parts = <<ToolReturnPart("r1")>>
    /\ requests' = requests + 1
    /\ messages' = messages \o <<ModelResponse(<<ToolCallPart>>), ModelRequest(parts)>>
    /\ UNCHANGED <<run_pc, run_output, output>>
    /\ UNCHANGED <<input, toolsetVars, deltaVars, streamVars, taskVars, orchVars, streamsVars>>

\* a model request answered with the final text: agent.run returns, then
\* _run_skill (lines 258-259) and execute_skill
model_answers(text) ==
    /\ run_pc = "running"
    /\ ~check_before_request(requests)
    /\ requests' = requests + 1
    /\ messages' = Append(messages, ModelResponse(<<TextPart(text)>>))
    /\ run_output' = text
    /\ output' = Str(<<Or(_last_tool_result(messages'), text)>>)
    /\ run_pc' = "returned"
    /\ UNCHANGED <<input, toolsetVars, deltaVars, streamVars, taskVars, orchVars, streamsVars>>

\* the next request would exceed the limit: agent.run raises
\* UsageLimitExceeded, execute_skill returns f"Error: {e}"
usage_limit_exceeded ==
    /\ run_pc = "running"
    /\ check_before_request(requests)
    /\ output' = ErrorStr("UsageLimitExceeded")
    /\ run_pc' = "returned"
    /\ UNCHANGED <<messages, requests, run_output>>
    /\ UNCHANGED <<input, toolsetVars, deltaVars, streamVars, taskVars, orchVars, streamsVars>>

InitRun ==
    /\ skills = <<>>
    /\ NewToolset
    /\ DeltaIdle /\ StreamIdle /\ RestIdle

NextRun ==
    \/ agent_run
    \/ \E parts \in ToolRounds : model_requests_tools(parts)
    \/ \E text \in {"done", "fine"} : model_answers(text)
    \/ usage_limit_exceeded

SpecRun == InitRun /\ [][NextRun]_vars

\* the event loop runs the call on: no step of the run waits for ever
SpecRunFair == SpecRun /\ WF_vars(NextRun)

-----------------------------------------------------------------------------
(* SpecTasks: a TaskToolset over the agent runs that use it: create_task,  *)
(* update_task, reset, and get_tools, which resets on the first step of a  *)
(* run.                                                                    *)

TaskStatus == {"pending", "in_progress", "completed", "failed"}

\* tasks.Task(id=..., subject=..., depends_on=...)
Task(id, subject, depends_on) ==
    [id |-> id, subject |-> subject, status |-> "pending", depends_on |-> depends_on]

\* the task ids a model passes to the tools
TaskIdInputs == {ToString(i) : i \in 1..MaxTasks} \cup {"99"}

\* TaskToolset.reset, on st = [tasks, counter]
reset_counter_too(st) == [tasks |-> << >>, counter |-> 0]

reset(st) == [st EXCEPT !.tasks = << >>]

\* the depends_on argument of create_task: None, or a list of ids
NoDependsOn       == [given |-> FALSE, ids |-> <<>>]
DependsOn(ids)    == [given |-> TRUE, ids |-> ids]

\* TaskToolset.create_task, on st
create_task_unchecked(st, subject, depends_on) ==
    LET deps    == IF ~depends_on.given \/ depends_on.ids = <<>> THEN <<>>
                   ELSE depends_on.ids
        task_id == ToString(st.counter + 1)
    IN [tasks   |-> (task_id :> Task(task_id, subject, deps)) @@ st.tasks,
        counter |-> st.counter + 1,
        ret     |-> <<"Task ", task_id, " created: ", subject>>]

create_task(st, subject, depends_on) ==
    LET deps    == IF ~depends_on.given \/ depends_on.ids = <<>> THEN <<>>
                   ELSE depends_on.ids
        task_id == ToString(st.counter + 1)
    IN IF \E i \in 1..Len(deps) : deps[i] \notin DOMAIN st.tasks
       THEN [tasks |-> st.tasks, counter |-> st.counter,
             ret |-> <<"Error: dependency '",
                       deps[CHOOSE i \in 1..Len(deps) :
                                /\ deps[i] \notin DOMAIN st.tasks
                                /\ \A j \in 1..(i - 1) : deps[j] \in DOMAIN st.tasks],
                       "' does not exist">>]
       ELSE [tasks   |-> (task_id :> Task(task_id, subject, deps)) @@ st.tasks,
             counter |-> st.counter + 1,
             ret     |-> <<"Task ", task_id, " created: ", subject>>]

\* TaskToolset.update_task, on st; status is None or a str
update_task(st, task_id, status) ==
    IF task_id \notin DOMAIN st.tasks
    THEN [tasks |-> st.tasks, ret |-> <<"Error: task '", task_id, "' not found">>]
    ELSE IF status = None
    THEN [tasks |-> st.tasks, ret |-> <<"Task ", task_id, " updated">>]
    ELSE IF status \notin TaskStatus
    THEN [tasks |-> st.tasks, ret |-> <<"Error: invalid status '", status, "'">>]
    ELSE [tasks |-> [st.tasks EXCEPT ![task_id].status = status],
          ret |-> <<"Task ", task_id, " updated">>]

TasksFrame ==
    UNCHANGED <<toolsetVars, deltaVars, streamVars, runVars, orchVars, streamsVars>>

\* toolset.reset()
Reset ==
    /\ _tasks' = reset([tasks |-> _tasks, counter |-> _counter]).tasks
    /\ _counter' = reset([tasks |-> _tasks, counter |-> _counter]).counter
    /\ input' = [op |-> "reset"]
    /\ output' = <<>>
    /\ UNCHANGED issued
    /\ TasksFrame

\* await toolset.get_tools(ctx), ctx.run_step being run_step
TaskToolset_get_tools_every_step(run_step) ==
    /\ LET st == reset([tasks |-> _tasks, counter |-> _counter])
       IN /\ _tasks' = st.tasks
          /\ _counter' = st.counter
    /\ input' = [op |-> "get_tools", run_step |-> run_step]
    /\ output' = <<>>
    /\ UNCHANGED issued
    /\ TasksFrame

TaskToolset_get_tools(run_step) ==
    /\ LET st0 == [tasks |-> _tasks, counter |-> _counter]
           st  == IF run_step = 0 THEN reset(st0) ELSE st0
       IN /\ _tasks' = st.tasks
          /\ _counter' = st.counter
    /\ input' = [op |-> "get_tools", run_step |-> run_step]
    /\ output' = <<>>
    /\ UNCHANGED issued
    /\ TasksFrame

\* the tool call create_task(subject, depends_on=depends_on)
CreateTask(subject, depends_on) ==
    /\ Len(issued) < MaxTasks
    /\ LET r == create_task([tasks |-> _tasks, counter |-> _counter], subject, depends_on)
       IN /\ _tasks' = r.tasks
          /\ _counter' = r.counter
          /\ output' = r.ret
          /\ issued' = IF r.ret[1] = "Task " THEN Append(issued, r.ret[2]) ELSE issued
    /\ input' = [op |-> "create_task", depends_on |-> depends_on]
    /\ TasksFrame

\* the tool call update_task(task_id, status=status)
UpdateTask(task_id, status) ==
    /\ LET r == update_task([tasks |-> _tasks, counter |-> _counter], task_id, status)
       IN /\ _tasks' = r.tasks
          /\ output' = r.ret
    /\ input' = [op |-> "update_task", task_id |-> task_id, status |-> status]
    /\ UNCHANGED <<_counter, issued>>
    /\ TasksFrame

InitTasks ==
    /\ input = [op |-> "TaskToolset"]
    /\ output = <<>>
    /\ skills = <<>>
    /\ NewToolset
    /\ DeltaIdle /\ StreamIdle /\ RunIdle /\ TasksIdle /\ OrchIdle /\ StreamsIdle

NextTasks ==
    \/ Reset
    \/ \E run_step \in {0, 1} : TaskToolset_get_tools(run_step)
    \/ \E depends_on \in {NoDependsOn} \cup
              {DependsOn(ids) : ids \in SeqsUpTo(TaskIdInputs, 1)
                                        \cup {<<"1", "2">>, <<"1", "99">>}} :
           CreateTask("Task", depends_on)
    \/ \E task_id \in TaskIdInputs, status \in TaskStatus \cup {None, "bogus"} :
           UpdateTask(task_id, status)

SpecTasks == InitTasks /\ [][NextTasks]_vars

-----------------------------------------------------------------------------
(* SpecOrchestrate: Orchestrator.orchestrate on one OrchestratorState:     *)
(* plan, the gather of one execute_task coroutine per task, synthesize.    *)
(* The coroutines run on one event loop: a step is the code between two    *)
(* awaits.                                                                 *)

\* models.Task(id=..., description=..., skills=[...]) of a plan
PlanTask(id, task_skills) ==
    [id |-> id, skills |-> task_skills, status |-> "pending",
     result |-> None, error |-> None]

\* the registry of the tests: SkillRegistry().discover(paths=[FIXTURES])
FixtureRegistry == discover([reg |-> << >>, raised |-> None], FixturesPath, FALSE).reg

\* the plans the planning model returns: the skills of one task or more
Plans ==
    UNION {[1..n -> {<<"simple-skill">>, <<"nonexistent-skill">>}] : n \in 1..MaxPlanTasks}

\* _gather_skill_instructions: the first name that is not registered raises
_gather_skill_instructions(skill_names) ==
    IF \E k \in 1..Len(skill_names) : skill_names[k] \notin DOMAIN FixtureRegistry
    THEN Raised("KeyError")
    ELSE Returned(skill_names)

\* asyncio.Semaphore.locked(), value being the free slots
locked_never(value) == FALSE

locked(value) == value = 0

\* asyncio.Semaphore.release(), at the exit of async with self._semaphore
release_lost(value) == value

release(value) == value + 1

\* the except clause of execute_task
except_Exception_ignored(task, e) == task

except_Exception_task(task, e) == [task EXCEPT !.status = "failed", !.error = e]

OrchFrame ==
    UNCHANGED <<toolsetVars, deltaVars, streamVars, runVars, taskVars, streamsVars>>

Coros(pcs) == {i \in 1..Len(coro) : coro[i] \in pcs}

\* await orchestrator.orchestrate(user_request, state), up to await self.plan
orchestrate ==
    /\ orch_pc = "none"
    /\ orchestrator_state' = [phase |-> "planning", tasks |-> <<>>, result |-> NoneObj]
    /\ orch_pc' = "planning"
    /\ UNCHANGED <<input, output, coro, _semaphore, synthesize_calls>>
    /\ OrchFrame

\* self.plan returns the decomposition; gather makes a coroutine per task
plan_returns(plan) ==
    /\ orch_pc = "planning"
    /\ orchestrator_state' =
           [orchestrator_state EXCEPT
               !.phase = "executing",
               !.tasks = [i \in 1..Len(plan) |-> PlanTask(ToString(i), plan[i])]]
    /\ coro' = [i \in 1..Len(plan) |-> "new"]
    /\ orch_pc' = "executing"
    /\ UNCHANGED <<input, output, _semaphore, synthesize_calls>>
    /\ OrchFrame

\* what orchestrate leaves to its caller when it raises
OrchestrateRaised(what) == [raised |-> what, value |-> ""]

\* agent.run of plan or synthesize raises: orchestrate raises
model_raises(where) ==
    /\ orch_pc = where
    /\ orch_pc' = "raised"
    /\ output' = OrchestrateRaised(where)
    /\ UNCHANGED <<input, orchestrator_state, coro, _semaphore, synthesize_calls>>
    /\ OrchFrame

\* execute_task(task i), from its start to its first await
execute_task(i) ==
    /\ orch_pc = "executing"
    /\ i \in Coros({"new"})
    /\ \A j \in 1..(i - 1) : coro[j] # "new"
    /\ LET task == [orchestrator_state.tasks[i] EXCEPT !.status = "in_progress"]
           skill_instructions == _gather_skill_instructions(task.skills)
       IN IF skill_instructions.raised # None
          THEN /\ orchestrator_state' =
                      [orchestrator_state EXCEPT
                          !.tasks[i] = except_Exception_task(task, skill_instructions.raised)]
               /\ coro' = [coro EXCEPT ![i] = "raised"]
               /\ UNCHANGED _semaphore
          ELSE /\ orchestrator_state' = [orchestrator_state EXCEPT !.tasks[i] = task]
               /\ IF locked(_semaphore)
                  THEN coro' = [coro EXCEPT ![i] = "acquiring"] /\ UNCHANGED _semaphore
                  ELSE coro' = [coro EXCEPT ![i] = "running"]
                       /\ _semaphore' = _semaphore - 1
    /\ UNCHANGED <<input, output, orch_pc, synthesize_calls>>
    /\ OrchFrame

\* a slot is free: the first waiter of the semaphore enters agent.run
semaphore_acquired(i) ==
    /\ orch_pc = "executing"
    /\ i \in Coros({"acquiring"})
    /\ \A j \in 1..(i - 1) : coro[j] # "acquiring"
    /\ ~locked(_semaphore)
    /\ _semaphore' = _semaphore - 1
    /\ coro' = [coro EXCEPT ![i] = "running"]
    /\ UNCHANGED <<input, output, orchestrator_state, orch_pc, synthesize_calls>>
    /\ OrchFrame

\* agent.run of task i returns: the semaphore is released, lines 73-74
task_run_returns(i) ==
    /\ orch_pc = "executing"
    /\ i \in Coros({"running"})
    /\ _semaphore' = release(_semaphore)
    /\ orchestrator_state' =
           [orchestrator_state EXCEPT !.tasks[i].status = "completed",
                                      !.tasks[i].result = "task output"]
    /\ coro' = [coro EXCEPT ![i] = "returned"]
    /\ UNCHANGED <<input, output, orch_pc, synthesize_calls>>
    /\ OrchFrame

\* agent.run of task i raises: the semaphore is released, lines 75-77
task_run_raises(i) ==
    /\ orch_pc = "executing"
    /\ i \in Coros({"running"})
    /\ _semaphore' = release(_semaphore)
    /\ orchestrator_state' =
           [orchestrator_state EXCEPT
               !.tasks[i] = except_Exception_task(@, "model error")]
    /\ coro' = [coro EXCEPT ![i] = "raised"]
    /\ UNCHANGED <<input, output, orch_pc, synthesize_calls>>
    /\ OrchFrame

\* the task that runs orchestrate is cancelled while it awaits gather, which
\* cancels the execute_task coroutines that have not ended
orchestrate_cancelled ==
    /\ orch_pc = "executing"
    /\ orch_pc' = "cancelling"
    /\ UNCHANGED <<input, output, orchestrator_state, coro, _semaphore, synthesize_calls>>
    /\ OrchFrame

\* CancelledError reaches execute_task(task i): a coroutine that never
\* started does not run, one waiting for a slot leaves the wait, one in
\* agent.run leaves async with, which releases; except Exception does not
\* catch CancelledError, the status of the task stays as it is
task_cancelled(i) ==
    /\ orch_pc = "cancelling"
    /\ i \in Coros({"new", "acquiring", "running"})
    /\ _semaphore' = IF coro[i] = "running" THEN release(_semaphore) ELSE _semaphore
    /\ coro' = [coro EXCEPT ![i] = "cancelled"]
    /\ UNCHANGED <<input, output, orchestrator_state, orch_pc, synthesize_calls>>
    /\ OrchFrame

\* every coroutine has ended: gather, then orchestrate, raise CancelledError
gather_cancelled ==
    /\ orch_pc = "cancelling"
    /\ Coros({"returned", "raised", "cancelled"}) = 1..Len(coro)
    /\ orch_pc' = "cancelled"
    /\ output' = OrchestrateRaised("CancelledError")
    /\ UNCHANGED <<input, orchestrator_state, coro, _semaphore, synthesize_calls>>
    /\ OrchFrame

\* gather returns: lines 116-119, up to the await of agent.run in synthesize
gather_returns ==
    /\ orch_pc = "executing"
    /\ Coros({"returned", "raised"}) = 1..Len(coro)
    /\ orchestrator_state' = [orchestrator_state EXCEPT !.phase = "synthesizing"]
    /\ synthesize_calls' = synthesize_calls + 1
    /\ orch_pc' = "synthesizing"
    /\ UNCHANGED <<input, output, coro, _semaphore>>
    /\ OrchFrame

\* synthesize returns the answer: lines 121-124
synthesize_returns ==
    /\ orch_pc = "synthesizing"
    /\ orchestrator_state' =
           [orchestrator_state EXCEPT
               !.phase = "idle",
               !.result = [answer |-> "synthesized answer",
                           tasks |-> orchestrator_state.tasks]]
    /\ output' = Returned("synthesized answer")
    /\ orch_pc' = "returned"
    /\ UNCHANGED <<input, coro, _semaphore, synthesize_calls>>
    /\ OrchFrame

\* Orchestrator(model, registry, max_concurrency=max_concurrency)
InitOrchestrate ==
    /\ \E max_concurrency \in 1..MaxConcurrency :
           /\ input = [max_concurrency |-> max_concurrency]
           /\ _semaphore = max_concurrency
    /\ output = NoneObj
    /\ orchestrator_state = [phase |-> "idle", tasks |-> <<>>, result |-> NoneObj]
    /\ coro = <<>> /\ orch_pc = "none" /\ synthesize_calls = 0
    /\ skills = <<>>
    /\ NewToolset
    /\ DeltaIdle /\ StreamIdle /\ RunIdle /\ TasksIdle /\ StreamsIdle

NextOrchestrate ==
    \/ orchestrate
    \/ \E plan \in Plans : plan_returns(plan)
    \/ \E where \in {"planning", "synthesizing"} : model_raises(where)
    \/ \E i \in 1..MaxPlanTasks :
           \/ execute_task(i)
           \/ semaphore_acquired(i)
           \/ task_run_returns(i)
           \/ task_run_raises(i)
           \/ task_cancelled(i)
    \/ orchestrate_cancelled
    \/ gather_cancelled
    \/ gather_returns
    \/ synthesize_returns

SpecOrchestrate == InitOrchestrate /\ [][NextOrchestrate]_vars

\* the event loop runs every coroutine that can take a step, and every agent
\* run ends: no step that stays possible is put off for ever
SpecOrchestrateFair == SpecOrchestrate /\ WF_vars(NextOrchestrate)

-----------------------------------------------------------------------------
(* SpecRequests: the get_tools calls of the agent runs that serve AG-UI    *)
(* requests on one toolset, each request with its own deps, and the        *)
(* execute_skill calls of those runs                                       *)

InitRequests ==
    /\ skills = <<Skill("a", C, "shared")>>
    /\ NewToolset
    /\ DeltaIdle
    /\ RestIdle
    /\ StreamIdle

NextRequests ==
    \/ Construct
    \/ \E dep \in DepsInputs : get_tools(dep)
    \/ \E e \in ExecIds : execute_skill_call(e, "a")
    \/ \E e \in ExecIds, effect \in ToolEffects : tool_call(e, effect)
    \/ \E e \in ExecIds : run_fails(e)
    \/ \E e \in ExecIds : run_completes(e)

SpecRequests == InitRequests /\ [][NextRequests]_vars

-----------------------------------------------------------------------------
(* SpecStream: one AguiEventStream over a toolset with one stateless skill. *)
(* The adapter's run makes the execute_skill calls: it awaits them before  *)
(* it ends, and they end with it when it raises or is cancelled.           *)

Sentinel == NoneObj                 \* the None run_adapter's finally puts

TaskDone == {"done", "failed", "cancelled"}       \* asyncio.Task.done()

\* what adapter.run_stream() yields: BaseEvent instances and other objects
AdapterItems == SeqsUpTo({"BaseEvent", "other"}, MaxAdapter)

AdapterEvent(i) == [type |-> "ADAPTER", run |-> 0, tool_call_id |-> <<"", i>>]

InitStream ==
    /\ skills = <<Skill("a", None, None)>>
    /\ NewToolset
    /\ DeltaIdle
    /\ RestIdle
    /\ stream_pc = "none" /\ _queue = <<>> /\ _task = "none"
    /\ adapter_items \in AdapterItems /\ adapter_i = 0
    /\ received = <<>> /\ enqueued = <<>>

\* async with run_agui_stream(toolset, adapter) as stream: __aenter__
__aenter__ ==
    /\ ctor = "ready"
    /\ stream_pc = "none"
    /\ _event_sink' = "stream"
    /\ _task' = "created"
    /\ stream_pc' = "iterating"
    /\ lastOp' = Op("other", 0, {})
    /\ UNCHANGED <<restored_dicts, skills, ctor, _registry, _namespaces, _namespaces_keys, heap,
                   _last_restored_state, execs, sinked>>
    /\ UNCHANGED <<restVars, deltaVars, _queue, adapter_items, adapter_i, received, enqueued>>

\* the task of run_adapter gets its first step
run_adapter_start ==
    /\ _task = "created"
    /\ stream_pc # "exiting"
    /\ _task' = "running"
    /\ lastOp' = Op("other", 0, {})
    /\ UNCHANGED <<restored_dicts, skills, ctor, _registry, _namespaces, _namespaces_keys, heap,
                   _last_restored_state, _event_sink, execs, sinked>>
    /\ UNCHANGED <<restVars, deltaVars, stream_pc, _queue, adapter_items, adapter_i,
                   received, enqueued>>

\* one turn of the async for of run_adapter
run_adapter_yield ==
    /\ _task = "running"
    /\ stream_pc # "exiting"
    /\ adapter_i < Len(adapter_items)
    /\ adapter_i' = adapter_i + 1
    /\ IF adapter_items[adapter_i + 1] = "BaseEvent"
       THEN /\ _queue' = put_nowait(_queue, <<AdapterEvent(adapter_i + 1)>>)
            /\ enqueued' = Append(enqueued, AdapterEvent(adapter_i + 1))
       ELSE UNCHANGED <<_queue, enqueued>>
    /\ lastOp' = Op("other", 0, {})
    /\ UNCHANGED <<restored_dicts, skills, ctor, _registry, _namespaces, _namespaces_keys, heap,
                   _last_restored_state, _event_sink, execs, sinked>>
    /\ UNCHANGED <<restVars, deltaVars, stream_pc, _task, adapter_items, received>>

\* the finally clause of run_adapter, the task ending as outcome
run_adapter_finally(outcome) ==
    /\ _event_sink' = None
    /\ _queue' = put_nowait(_queue, <<Sentinel>>)
    /\ enqueued' = Append(enqueued, Sentinel)
    /\ _task' = outcome

\* the execute_skill calls in flight end with the run that made them
CancelExecs ==
    /\ execs' = [e \in ExecIds |->
                    IF execs[e].pc = "running" THEN DoneExec ELSE execs[e]]
    /\ lastOp' = Op("other", 0, {})

\* adapter.run_stream() is exhausted
run_adapter_finish ==
    /\ _task = "running"
    /\ stream_pc # "exiting"
    /\ adapter_i = Len(adapter_items)
    /\ Running(execs) = {}
    /\ run_adapter_finally("done")
    /\ lastOp' = Op("other", 0, {})
    /\ UNCHANGED <<restored_dicts, skills, ctor, _registry, _namespaces, _namespaces_keys, heap,
                   _last_restored_state, execs, sinked>>
    /\ UNCHANGED <<restVars, deltaVars, stream_pc, adapter_items, adapter_i, received>>

\* adapter.run_stream() raises
run_adapter_raises ==
    /\ _task = "running"
    /\ run_adapter_finally("failed")
    /\ CancelExecs
    /\ UNCHANGED <<restored_dicts, skills, ctor, _registry, _namespaces, _namespaces_keys, heap,
                   _last_restored_state, sinked>>
    /\ UNCHANGED <<restVars, deltaVars, stream_pc, adapter_items, adapter_i, received>>

\* the cancellation __aexit__ requested reaches the task: a task that never
\* started ends without running its body, a running one runs its finally
run_adapter_cancelled ==
    /\ stream_pc = "exiting"
    /\ _task \in {"created", "running"}
    /\ IF _task = "created"
       THEN /\ _task' = "cancelled"
            /\ lastOp' = Op("other", 0, {})
            /\ UNCHANGED <<_event_sink, _queue, enqueued, execs>>
       ELSE /\ run_adapter_finally("cancelled")
            /\ CancelExecs
    /\ UNCHANGED <<restored_dicts, skills, ctor, _registry, _namespaces, _namespaces_keys, heap,
                   _last_restored_state, sinked>>
    /\ UNCHANGED <<restVars, deltaVars, stream_pc, adapter_items, adapter_i, received>>

\* async for event in stream: __anext__ with an item in the queue
__anext__ ==
    /\ stream_pc = "iterating"
    /\ _queue # <<>>
    /\ LET event == Head(_queue)
       IN IF event = Sentinel
          THEN stream_pc' = "ended" /\ UNCHANGED received   \* StopAsyncIteration
          ELSE received' = Append(received, event) /\ UNCHANGED stream_pc
    /\ _queue' = Tail(_queue)
    /\ lastOp' = Op("other", 0, {})
    /\ UNCHANGED <<restVars, toolsetVars_but_lastOp, deltaVars, _task, adapter_items,
                   adapter_i, enqueued>>

\* __aexit__, lines 468-473: where the context manager is once the sink is
\* detached: out, or awaiting the task it cancelled
cancel_and_await_skipped(task) == "exited"

cancel_and_await(task) == IF task \in TaskDone THEN "exited" ELSE "exiting"

\* the async with block is left, at the end of the stream or before it
__aexit__ ==
    /\ stream_pc \in {"iterating", "ended"}
    /\ _event_sink' = None
    /\ stream_pc' = cancel_and_await(_task)
    /\ lastOp' = Op("other", 0, {})
    /\ UNCHANGED <<restored_dicts, skills, ctor, _registry, _namespaces, _namespaces_keys, heap,
                   _last_restored_state, execs, sinked>>
    /\ UNCHANGED <<restVars, deltaVars, _queue, _task, adapter_items, adapter_i,
                   received, enqueued>>

\* await self._task ends in __aexit__: a CancelledError is caught, another
\* exception of the task leaves __aexit__
aexit_resumes ==
    /\ stream_pc = "exiting"
    /\ _task \in TaskDone
    /\ stream_pc' = IF _task = "failed" THEN "raised" ELSE "exited"
    /\ lastOp' = Op("other", 0, {})
    /\ UNCHANGED <<restVars, toolsetVars_but_lastOp, deltaVars, _queue, _task, adapter_items,
                   adapter_i, received, enqueued>>

\* the adapter's agent run calls the execute_skill tool
agent_calls_execute_skill(e, skill_name) ==
    /\ _task = "running"
    /\ execute_skill_call(e, skill_name)

NextStream ==
    \/ Construct
    \/ __aenter__
    \/ run_adapter_start
    \/ run_adapter_yield
    \/ run_adapter_finish
    \/ run_adapter_raises
    \/ run_adapter_cancelled
    \/ __anext__
    \/ __aexit__
    \/ aexit_resumes
    \/ \E e \in ExecIds : agent_calls_execute_skill(e, "a")
    \/ \E e \in ExecIds, effect \in ToolEffects : tool_call(e, effect)
    \/ \E e \in ExecIds : run_fails(e)
    \/ \E e \in ExecIds : run_completes(e)

SpecStream == InitStream /\ [][NextStream]_vars

-----------------------------------------------------------------------------
(* SpecStreams: the AguiEventStreams opened on one toolset, one for each   *)
(* request a server is serving.  Every stream has its own queue, task and  *)
(* event_sink closure; the toolset has the one attribute _event_sink.      *)

StreamIds == 1..MaxStreams

\* the event_sink closure that __aenter__ of stream i defines
SinkOf(i) == ToString(i)

\* AguiEventStream.__init__
NewStream == [pc |-> "none", _task |-> "none", _queue |-> <<>>]

StreamsFrame ==
    UNCHANGED <<skills, ctor, _registry, _namespaces, _namespaces_keys, heap,
                _last_restored_state, execs, sinked, lastOp, restored_dicts,
                deltaVars, streamVars, callVars, runVars, taskVars, orchVars>>

InitStreams ==
    /\ skills = <<Skill("a", None, None)>>
    /\ NewToolset
    /\ DeltaIdle /\ StreamIdle /\ CallIdle /\ RunIdle /\ TasksIdle /\ OrchIdle
    /\ streams = [i \in StreamIds |-> NewStream]

\* SkillToolset(skills=skills), before any stream is opened on it
ConstructForStreams ==
    /\ Construct
    /\ UNCHANGED streams

\* __aenter__ of stream i
aenter(i) ==
    /\ ctor = "ready"
    /\ streams[i].pc = "none"
    /\ _event_sink' = SinkOf(i)
    /\ streams' = [streams EXCEPT ![i].pc = "open", ![i]._task = "created"]
    /\ StreamsFrame

\* the task of run_adapter of stream i gets its first step
run_adapter_begins(i) ==
    /\ streams[i]._task = "created"
    /\ streams[i].pc # "exiting"
    /\ streams' = [streams EXCEPT ![i]._task = "running"]
    /\ UNCHANGED _event_sink
    /\ StreamsFrame

\* one BaseEvent of the adapter of stream i
run_adapter_puts(i) ==
    /\ streams[i]._task = "running"
    /\ streams[i].pc # "exiting"
    /\ Len(streams[i]._queue) < MaxAdapter
    /\ streams' = [streams EXCEPT ![i]._queue = put_nowait(@, <<AdapterEvent(i)>>)]
    /\ UNCHANGED _event_sink
    /\ StreamsFrame

\* the finally clause of run_adapter of stream i, its task ending as outcome
run_adapter_ends(i, outcome) ==
    /\ _event_sink' = None
    /\ streams' = [streams EXCEPT ![i]._queue = put_nowait(@, <<Sentinel>>),
                                  ![i]._task = outcome]

\* adapter.run_stream() of stream i is exhausted, or raises
run_adapter_done(i, outcome) ==
    /\ streams[i]._task = "running"
    /\ streams[i].pc # "exiting"
    /\ run_adapter_ends(i, outcome)
    /\ StreamsFrame

\* the cancellation __aexit__ of stream i requested reaches its task
run_adapter_is_cancelled(i) ==
    /\ streams[i].pc = "exiting"
    /\ streams[i]._task \in {"created", "running"}
    /\ IF streams[i]._task = "created"
       THEN /\ streams' = [streams EXCEPT ![i]._task = "cancelled"]
            /\ UNCHANGED _event_sink
       ELSE run_adapter_ends(i, "cancelled")
    /\ StreamsFrame

\* a sub-agent event goes through the sink the toolset has at the moment
event_sink_called ==
    /\ _event_sink # None
    /\ \E i \in StreamIds :
           /\ _event_sink = SinkOf(i)
           /\ Len(streams[i]._queue) < MaxAdapter
           /\ streams' = [streams EXCEPT ![i]._queue =
                              put_nowait(@, <<AguiEvent("TOOL_CALL_START", "a",
                                                FunctionToolCallEvent(i, 1))>>)]
    /\ UNCHANGED _event_sink
    /\ StreamsFrame

\* __anext__ of stream i, with an item in its queue
anext(i) ==
    /\ streams[i].pc = "open"
    /\ streams[i]._queue # <<>>
    /\ streams' = [streams EXCEPT
                       ![i]._queue = Tail(@),
                       ![i].pc = IF Head(streams[i]._queue) = Sentinel
                                 THEN "ended" ELSE @]
    /\ UNCHANGED _event_sink
    /\ StreamsFrame

\* __aexit__ of stream i
aexit(i) ==
    /\ streams[i].pc \in {"open", "ended"}
    /\ _event_sink' = None
    /\ streams' = [streams EXCEPT ![i].pc = cancel_and_await(streams[i]._task)]
    /\ StreamsFrame

\* await self._task ends in __aexit__ of stream i
aexit_awaited(i) ==
    /\ streams[i].pc = "exiting"
    /\ streams[i]._task \in TaskDone
    /\ streams' = [streams EXCEPT ![i].pc =
                       IF streams[i]._task = "failed" THEN "raised" ELSE "exited"]
    /\ UNCHANGED _event_sink
    /\ StreamsFrame

NextStreams ==
    \/ ConstructForStreams
    \/ \E i \in StreamIds : aenter(i)
    \/ \E i \in StreamIds : run_adapter_begins(i)
    \/ \E i \in StreamIds : run_adapter_puts(i)
    \/ \E i \in StreamIds, outcome \in {"done", "failed"} : run_adapter_done(i, outcome)
    \/ \E i \in StreamIds : run_adapter_is_cancelled(i)
    \/ event_sink_called
    \/ \E i \in StreamIds : anext(i)
    \/ \E i \in StreamIds : aexit(i)
    \/ \E i \in StreamIds : aexit_awaited(i)

SpecStreams == InitStreams /\ [][NextStreams]_vars

-----------------------------------------------------------------------------
(* SpecDelta: compute_state_delta on every pair of bounded snapshots       *)

DeltaNamespaces == {"ns", "shared"}

DeltaDocs ==
    {JObj(EmptyDict)}
    \cup {JObj([count |-> JInt(n)]) : n \in 0..MaxCount}
    \cup {JObj([items |-> JList(s)]) :
            s \in SeqsUpTo({JStr(v) : v \in ItemValues}, MaxDeltaItems)}
    \cup {JObj([count |-> JInt(n), items |-> JList(<<JStr("x")>>)]) :
            n \in 0..MaxCount}

DeltaSnapshots ==
    {JObj(f) : f \in UNION {[D -> DeltaDocs] : D \in SUBSET DeltaNamespaces}}

InitDelta ==
    /\ old \in DeltaSnapshots
    /\ new \in DeltaSnapshots
    /\ delta = Pending
    /\ skills = <<>>
    /\ NewToolset
    /\ StreamIdle
    /\ RestIdle

ComputeStateDelta ==
    /\ delta = Pending
    /\ delta' = compute_state_delta(old, new)
    /\ UNCHANGED <<old, new, toolsetVars, streamVars, restVars>>

NextDelta == ComputeStateDelta

SpecDelta == InitDelta /\ [][NextDelta]_vars

-----------------------------------------------------------------------------
(* Properties of the state namespaces                                      *)

Declares(skill) == skill.state_type # None /\ skill.state_namespace # None

HasConflict(sk) ==
    \E i, j \in 1..Len(sk) :
        /\ Declares(sk[i]) /\ Declares(sk[j])
        /\ sk[i].state_namespace = sk[j].state_namespace
        /\ sk[i].state_type # sk[j].state_type

\* the type the first skill to register namespace ns supplied; the skills
\* register in the order of SkillRegistry.names
FirstType(ns) ==
    LET order == names(_registry)
        i == CHOOSE i \in 1..Len(order) :
                 /\ Declares(_registry[order[i]])
                 /\ _registry[order[i]].state_namespace = ns
                 /\ \A j \in 1..(i - 1) :
                        ~(/\ Declares(_registry[order[j]])
                          /\ _registry[order[j]].state_namespace = ns)
    IN _registry[order[i]].state_type

DeclaredNamespaces ==
    {_registry[n].state_namespace : n \in {m \in DOMAIN _registry : Declares(_registry[m])}}

\* C1: construction raises TypeError exactly when two skills declare one
\* namespace with different state types; otherwise every declared namespace
\* holds one instance, and a skill that declared it is handed that very
\* instance when execute_skill runs it.
C1_SharedNamespaceSameInstance ==
    /\ ctor # "new" /\ ~HasDuplicateName(skills) =>
           (ctor = "TypeError" <=> HasConflict(skills))
    /\ ctor = "ready" => DOMAIN _namespaces = DeclaredNamespaces
    /\ lastOp.op = "execute_skill" /\ execs[lastOp.by].pc = "running"
         /\ Declares(_registry[execs[lastOp.by].skill_name])
       => execs[lastOp.by].state = _namespaces[execs[lastOp.by].namespace]

\* C2: the instance a namespace holds is always of the type its first
\* registering skill supplied.
C2_NamespaceTypeFixed ==
    ctor = "ready" =>
        /\ DOMAIN _namespaces = DeclaredNamespaces
        /\ \A ns \in DOMAIN _namespaces :
               heap[_namespaces[ns]].type = FirstType(ns)

C2_Witness ==
    /\ ctor = "ready"
    /\ lastOp.op = "restore_state_snapshot"
    /\ "shared" \in lastOp.touched
    /\ \E e \in ExecIds : execs[e].pc = "done"

\* a toolset freshly built with the same skills
FreshToolset == register_all(EmptySt, _registry, names(_registry))

\* C3: restoring the toolset's own snapshot, into the toolset itself or into
\* a fresh toolset with the same skills, raises nothing and gives a toolset
\* whose snapshot is that snapshot.
C3_RoundTripState ==
    ctor = "ready" =>
        LET same  == Restored(SnapshotData)
            fresh == restore_loop(FreshToolset, SnapshotData.data, SnapshotData.order)
        IN /\ same.raised = None
           /\ snapshot_of(same.ns, same.heap) = build_state_snapshot
           /\ fresh.raised = None
           /\ snapshot_of(fresh.ns, fresh.heap) = build_state_snapshot

C3_RoundTripStep ==
    restore_state_snapshot(SnapshotData) =>
        build_state_snapshot' = build_state_snapshot

\* C3: in every state of the toolset restoring its own snapshot round-trips,
\* and every restore_state_snapshot(build_state_snapshot()) the application
\* makes leaves build_state_snapshot() as it was.
C3_SnapshotRestoreRoundTrip ==
    [](C3_RoundTripState) /\ [][C3_RoundTripStep]_vars

C3_Witness ==
    /\ lastOp.op = "restore_state_snapshot"
    /\ lastOp.own
    /\ "shared" \in lastOp.touched
    /\ build_state_snapshot # snapshot_of(FreshToolset.ns, FreshToolset.heap)

\* the state delta event in what execute_skill returned, if any
HasDelta(ret) ==
    /\ ret.kind = "ToolReturn"
    /\ \E i \in 1..Len(ret.metadata) : ret.metadata[i].type = "STATE_DELTA"

\* C5: a completed execute_skill call on a skill with a registered
\* namespace returns a state delta exactly when the namespace's serialized
\* state after the run differs from the one before it, and returns none when
\* its tools changed nothing.
C5_DeltaIffStateChanged ==
    /\ lastOp.op = "execute_skill_end"
    /\ lastOp.x.cause = "ok"
    /\ lastOp.x.old_snapshot # NoneObj
    => LET x      == lastOp.x
           before == x.old_snapshot.d[x.namespace]
           after  == model_dump(heap[_namespaces[x.namespace]])
       IN /\ HasDelta(x.ret) <=> after # before
          /\ ~x.mutated => ~HasDelta(x.ret)

\* C6: no snapshot or restore of a namespace is made while another
\* execute_skill call that has changed that namespace is still in flight,
\* also when two calls for skills sharing the namespace run at the same time.
C6_NoSnapshotDuringFlight ==
    \A e \in Running(execs) \ {lastOp.by} :
        ~(/\ execs[e].mutated
          /\ execs[e].state # 0
          /\ execs[e].namespace \in lastOp.touched)

\* C7: an unknown skill name, a tool that raises and a failing sub-agent run
\* all end execute_skill with a returned string that starts with "Error:";
\* the call never raises.
C7_ErrorsAreReturned ==
    lastOp.x # NoneObj =>
        /\ lastOp.x.pc = "returned"
        /\ lastOp.x.cause \in {"unknown", "tool", "run"} =>
               /\ lastOp.x.ret.kind = "str"
               /\ Head(lastOp.x.ret.text) = "Error: "

C7_Witness ==
    /\ lastOp.x # NoneObj
    /\ lastOp.x.cause = "tool"
    /\ lastOp.x.pc = "returned"
    /\ lastOp.x.mutated = FALSE
    /\ \E e \in ExecIds \ {lastOp.by} : execs[e].pc = "running"

-----------------------------------------------------------------------------
(* Properties of compute_state_delta                                       *)

\* C4: compute_state_delta returns None exactly when the two snapshots are
\* equal, and a delta it returns has at least one operation.
C4_NoneIffEqual ==
    delta # Pending =>
        /\ delta = NoneObj <=> old = new
        /\ delta # NoneObj => delta.delta # <<>>

C4_Witness ==
    /\ delta = NoneObj
    /\ old = new
    /\ Keys(old) = DeltaNamespaces

\* old and new differ only in the value of the scalar field count of ns
DiffersInCountOf(ns) ==
    /\ Keys(old) = Keys(new)
    /\ ns \in Keys(old)
    /\ \A other \in Keys(old) \ {ns} : old.d[other] = new.d[other]
    /\ Keys(old.d[ns]) = Keys(new.d[ns])
    /\ "count" \in Keys(old.d[ns])
    /\ \A f \in Keys(old.d[ns]) \ {"count"} : old.d[ns].d[f] = new.d[ns].d[f]
    /\ old.d[ns].d["count"] # new.d[ns].d["count"]

\* C15: for snapshots that differ only in the value of one scalar field of
\* one namespace, compute_state_delta returns a delta of exactly one
\* operation, a replace whose path points to that field of that namespace
\* (the path is kept as its sequence of reference tokens).
C15_FieldLevelPath ==
    \A ns \in DeltaNamespaces :
        (delta # Pending /\ DiffersInCountOf(ns)) =>
            /\ delta # NoneObj
            /\ Len(delta.delta) = 1
            /\ delta.delta[1].path = <<ns, "count">>
            /\ delta.delta[1].op = "replace"
            /\ delta.delta[1].value = new.d[ns].d["count"]

\* the count of one namespace changed, next to a list field and to another
\* namespace that stayed as they were
C15_Witness ==
    /\ delta # Pending
    /\ DiffersInCountOf("ns")
    /\ Keys(old) = DeltaNamespaces
    /\ Keys(old.d["ns"]) = {"count", "items"}

-----------------------------------------------------------------------------
(* Properties of the tool-call events of an execution                      *)

\* the tool events the sub-agent run of call e produced: a call and a
\* result per tool call, no result for the tool call that raised
RECURSIVE Emitted(_, _, _)
Emitted(x, e, id) ==
    IF id > x.tools THEN <<>>
    ELSE (IF id = x.tools /\ x.cause = "tool"
          THEN <<FunctionToolCallEvent(e, id)>>
          ELSE <<FunctionToolCallEvent(e, id), FunctionToolResultEvent(e, id)>>)
         \o Emitted(x, e, id + 1)

InSink(e) == SelectSeq(sinked, LAMBDA ev : ev.run = e)

MetadataToolEvents(ret) ==
    IF ret.kind = "ToolReturn"
    THEN SelectSeq(ret.metadata, LAMBDA ev : ev.type # "STATE_DELTA")
    ELSE <<>>

\* a call in flight keeps its events in one place only
OneChannelInFlight ==
    \A e \in Running(execs) :
        IF execs[e].event_sink # None
        THEN execs[e].collected_events = <<>>
        ELSE InSink(e) = <<>>

-----------------------------------------------------------------------------
(* Properties of the merged stream                                         *)

\* the BaseEvents among the first n items the adapter yielded, in its order
YieldedEvents(n) ==
    LET idx == SelectSeq([i \in 1..n |-> i],
                         LAMBDA i : adapter_items[i] = "BaseEvent")
    IN [j \in 1..Len(idx) |-> AdapterEvent(idx[j])]

IsAdapterEvent(ev) == ev # Sentinel /\ ev.type = "ADAPTER"
IsSinkEvent(ev)    == ev # Sentinel /\ ev.type # "ADAPTER"

\* C9: a consumer that reached the end of the stream has received, once
\* each and in the order they were put, every event the adapter yielded and
\* every event the executions of the run pushed through the sink, the
\* adapter's events in the adapter's order; nothing is put in the queue
\* after the sentinel, and the events of an execution that captured the
\* stream's sink are all in the queue.
C9_ConsumerReceivesAll ==
    /\ \A i \in 1..Len(enqueued) : enqueued[i] = Sentinel => i = Len(enqueued)
    /\ SelectSeq(enqueued, IsAdapterEvent) = YieldedEvents(adapter_i)
    /\ (lastOp.op = "execute_skill_end" /\ lastOp.x.event_sink = "stream") =>
           SelectSeq(enqueued, LAMBDA ev : IsSinkEvent(ev) /\ ev.run = lastOp.by)
             = _events_to_agui(lastOp.x.skill_name, Emitted(lastOp.x, lastOp.by, 1))
    /\ stream_pc = "ended" =>
           /\ enqueued # <<>>
           /\ received = SubSeq(enqueued, 1, Len(enqueued) - 1)
           /\ SelectSeq(received, IsAdapterEvent) = YieldedEvents(adapter_i)
           /\ _queue = <<>>

\* the consumer reached the end having received events of the adapter and
\* of an execution, the adapter having yielded an object that is no event
C9_Witness ==
    /\ stream_pc = "ended"
    /\ _task = "done"
    /\ \E i \in 1..Len(received) : IsAdapterEvent(received[i])
    /\ \E i \in 1..Len(received) : IsSinkEvent(received[i])
    /\ \E i \in 1..Len(adapter_items) : adapter_items[i] = "other"

\* C10: once the context of the stream is exited, at the end of the stream
\* or after the consumer left before the sentinel, the toolset's sink is
\* None and the task of run_adapter is done.
C10_ExitDetachesAndFinishes ==
    stream_pc = "exited" => _event_sink = None /\ _task \in TaskDone

\* the consumer left after one event, before the sentinel, while the task
\* was running and an execution held the sink; the task was cancelled
C10_Witness ==
    /\ stream_pc = "exited"
    /\ _task = "cancelled"
    /\ received # <<>>
    /\ Len(enqueued) > Len(received) + 1
    /\ enqueued[Len(enqueued)] = Sentinel

\* every tool event a run with MaxTools tool calls can emit, in the order
\* the run emits them
RECURSIVE AllToolEvents(_, _)
AllToolEvents(e, id) ==
    IF id > MaxTools THEN <<>>
    ELSE <<FunctionToolCallEvent(e, id), FunctionToolResultEvent(e, id)>>
         \o AllToolEvents(e, id + 1)

ReceivedOf(e) == SelectSeq(received, LAMBDA ev : IsSinkEvent(ev) /\ ev.run = e)

\* C11: the events of one skill execution reach the consumer of the merged
\* stream in the order the execution emitted them, each once, whatever the
\* other executions and the adapter put in between.
C11_OrderWithinExecution ==
    \A e \in ExecIds :
        LET got == ReceivedOf(e)
            all == _events_to_agui("a", AllToolEvents(e, 1))
        IN /\ Len(got) <= Len(all)
           /\ got = SubSeq(all, 1, Len(got))

\* two executions were in flight together and the consumer received the
\* events of the one started second before those of the one started first
C11_Witness ==
    /\ stream_pc = "ended"
    /\ ReceivedOf(1) # <<>>
    /\ ReceivedOf(2) # <<>>
    /\ \E i, j \in 1..Len(received) :
           /\ i < j
           /\ IsSinkEvent(received[i]) /\ received[i].run = 2
           /\ IsSinkEvent(received[j]) /\ received[j].run = 1

-----------------------------------------------------------------------------
(* Properties of the AG-UI events of one execution                         *)

\* for each tool call id of s: start, then args, then end, each once, and
\* a result only after the start of its call
WellOrdered(s) ==
    \A i \in 1..Len(s) :
        LET before(type) == {k \in 1..(i - 1) :
                                /\ s[k].type = type
                                /\ s[k].tool_call_id = s[i].tool_call_id}
            after(type)  == {k \in (i + 1)..Len(s) :
                                /\ s[k].type = type
                                /\ s[k].tool_call_id = s[i].tool_call_id}
        IN /\ s[i].type = "TOOL_CALL_START" =>
                 /\ before("TOOL_CALL_START") = {}
                 /\ Cardinality(after("TOOL_CALL_ARGS")) = 1
                 /\ Cardinality(after("TOOL_CALL_END")) = 1
           /\ s[i].type = "TOOL_CALL_ARGS" =>
                 /\ Cardinality(before("TOOL_CALL_START")) = 1
                 /\ before("TOOL_CALL_END") = {}
           /\ s[i].type = "TOOL_CALL_END" =>
                 /\ Cardinality(before("TOOL_CALL_START")) = 1
                 /\ Cardinality(before("TOOL_CALL_ARGS")) = 1
           /\ s[i].type = "TOOL_CALL_RESULT" =>
                 Cardinality(before("TOOL_CALL_START")) = 1

\* C12: in the AG-UI events of one execution, those sent to the sink while
\* it runs and those returned in the metadata when it ends, each tool call
\* id has its start before its args before its end, and every result
\* follows the start of its call.
C12_StartArgsEndThenResult ==
    /\ \A e \in Running(execs) : WellOrdered(InSink(e))
    /\ lastOp.op = "execute_skill_end" =>
           /\ WellOrdered(InSink(lastOp.by))
           /\ WellOrdered(MetadataToolEvents(lastOp.x.ret))

\* an execution without a sink returned the four events of a tool call
\* and its result, and another one had sent the three events of a call
\* that raised to the sink
C12_Witness ==
    /\ lastOp.op = "execute_skill_end"
    /\ Len(MetadataToolEvents(lastOp.x.ret)) = 4
    /\ lastOp.x.ret.metadata[4].type = "TOOL_CALL_RESULT"
    /\ Len(sinked) = 3

-----------------------------------------------------------------------------
(* Properties of restore_state_snapshot and get_tools                      *)

AllRestoreInputs == RestoreInputs \cup {SnapshotData}

\* what restore_state_snapshot(d) would leave, in any state of the toolset
C13_FrameState ==
    ctor = "ready" =>
        \A d \in AllRestoreInputs :
            LET st == Restored(d)
            IN /\ DOMAIN st.ns = DOMAIN _namespaces
               /\ st.keys = _namespaces_keys
               /\ \A ns \in DOMAIN _namespaces \ Keys(d.data) :
                      /\ st.ns[ns] = _namespaces[ns]
                      /\ st.heap[st.ns[ns]] = heap[_namespaces[ns]]

C13_FrameStep ==
    \A d \in AllRestoreInputs :
        restore_state_snapshot(d) =>
            /\ DOMAIN _namespaces' = DOMAIN _namespaces
            /\ _namespaces_keys' = _namespaces_keys
            /\ \A ns \in DOMAIN _namespaces \ Keys(d.data) :
                   heap'[_namespaces'[ns]] = heap[_namespaces[ns]]

\* C13: restore_state_snapshot(data) adds no namespace, ignores the keys of
\* data that are not registered, and leaves a registered namespace that is
\* absent from data with the very state object it had, unchanged.
C13_RestoreAddsNothing ==
    [](C13_FrameState) /\ [][C13_FrameStep]_vars

\* a restore replaced the state of "shared" only, in a toolset whose other
\* namespace holds a state that is not the default
C13_Witness ==
    /\ lastOp.op = "restore_state_snapshot"
    /\ lastOp.touched = {"shared"}
    /\ "" \in DOMAIN _namespaces
    /\ heap[_namespaces[""]] # NewState(heap[_namespaces[""]].type)

IsNonEmptyDict(dep) ==
    dep \in DOMAIN DepsStates /\ Keys(DepsStates[dep].data) # {}

\* C14: get_tools restores from deps.state exactly when it is a non-empty
\* dict object the toolset has not restored from before; a call carrying a
\* dict object seen before, None deps, deps without state, a state that is
\* no dict and an empty dict leave the namespaces as they are.
C14_RestoreOncePerDict ==
    [][\A dep \in DepsInputs :
          get_tools(dep) =>
              IF IsNonEmptyDict(dep) /\ dep \notin restored_dicts
              THEN lastOp'.op = "get_tools"
              ELSE /\ lastOp'.op # "get_tools"
                   /\ UNCHANGED <<_namespaces, heap>>]_vars

-----------------------------------------------------------------------------
(* Properties of the registry                                              *)

\* C16: register(skill) with a name the registry holds raises ValueError
\* and leaves the registry as it was; a name, once registered, maps to the
\* skill first registered under it from then on.
C16_NameMapsToFirstRegistered ==
    [][/\ \A skill \in ManualSkills :
             (Register(skill) /\ skill.name \in DOMAIN _registry) =>
                 /\ lastOp'.x.raised = "ValueError"
                 /\ _registry' = _registry
       /\ ctor = "ready" =>
             \A n \in DOMAIN _registry :
                 /\ n \in DOMAIN _registry'
                 /\ _registry'[n].origin = _registry[n].origin]_vars

\* registering a second skill under the name of a discovered one has raised
C16_Witness ==
    /\ lastOp.op = "register"
    /\ lastOp.x.raised = "ValueError"
    /\ lastOp.x.arg.name = "simple-skill"
    /\ _registry["simple-skill"].origin = "discovered"

\* C17: constructing a toolset with a manual skill and use_entrypoints,
\* when an entrypoint provides a skill of the same name, succeeds, and the
\* registry maps the name to the manual skill.
C17_ManualSkillTakesPriority ==
    (/\ lastOp.op = "__init__"
     /\ lastOp.x.arg.use_entrypoints
     /\ lastOp.x.arg.skill_paths = <<>>
     /\ \E i \in 1..Len(skills) : skills[i].name = "memory")
    => /\ ctor = "ready"
       /\ "memory" \in DOMAIN _registry
       /\ _registry["memory"].origin = "manual"

\* C18: activate(name), on a registered skill that has a path and no
\* instructions, loads the instructions and the script tools of the skill
\* directory.
C18_ActivateLoadsInstructionsAndTools ==
    (/\ lastOp.op = "activate"
     /\ lastOp.x.raised = None
     /\ _registry[lastOp.x.arg].origin = "manual"
     /\ _registry[lastOp.x.arg].path # None)
    => /\ _registry[lastOp.x.arg].instructions = Body(_registry[lastOp.x.arg].path)
       /\ _registry[lastOp.x.arg].tools
              = discover_script_tools(_registry[lastOp.x.arg].path)

\* C19: the skills discover_from_paths returns have no instructions: right
\* after a discovery, the skills it registered have instructions None.
C19_DiscoveredWithoutInstructions ==
    (/\ lastOp.op = "discover"
     /\ lastOp.x.raised = None
     /\ lastOp.x.arg.skill_paths # <<>>)
    => \A n \in DOMAIN _registry :
           _registry[n].origin = "discovered" => _registry[n].instructions = None

-----------------------------------------------------------------------------
(* Properties of the resource tool                                        *)

\* the paths asked for whose file, links followed, is outside the skill root
EscapingPaths ==
    { <<"escape.txt">>, <<"..", "secret.txt">>, <<"..", "..", "..", "etc", "passwd">> }

\* C20: read_resource(path) returns content only when path is literally in
\* the declared resources and its resolved path is inside the skill root;
\* when either fails it raises 'not an available resource', for a '../'
\* path and for a declared link to a file outside the root too; no content
\* of a file outside the root is returned.
C20_DeclaredAndInsideRoot ==
    lastOp.op = "read_resource" =>
        /\ lastOp.x.returned # None =>
               /\ lastOp.x.path \in skills[1].resources
               /\ lastOp.x.path \notin EscapingPaths
               /\ lastOp.x.returned = "Reference Guide"
        /\ (lastOp.x.path \notin skills[1].resources \/ lastOp.x.path \in EscapingPaths)
               => lastOp.x.raised = "not an available resource"

\* the declared link to the secret outside the root was asked for and refused
C20_Witness ==
    /\ lastOp.op = "read_resource"
    /\ lastOp.x.path = <<"escape.txt">>
    /\ <<"escape.txt">> \in skills[1].resources
    /\ lastOp.x.raised = "not an available resource"

-----------------------------------------------------------------------------
(* Properties of name validation                                           *)

LowercaseAlnum == {"a", "1", "e_acute", "fullwidth_a"}
Uppercase      == {"A", "E_acute"}

\* lowercase alphanumeric characters with single internal hyphens, 1 to 64
WellFormedName(name) ==
    /\ Len(name) \in 1..64
    /\ \A i \in 1..Len(name) : name[i] \in LowercaseAlnum \cup {"-"}
    /\ name[1] # "-" /\ name[Len(name)] # "-"
    /\ \A i \in 1..(Len(name) - 1) : ~(name[i] = "-" /\ name[i + 1] = "-")

BreaksARule(name) ==
    \/ name = <<>>
    \/ Len(name) >= 65
    \/ \E i \in 1..Len(name) : name[i] \in Uppercase
    \/ name # <<>> /\ (name[1] = "-" \/ name[Len(name)] = "-")
    \/ \E i \in 1..(Len(name) - 1) : name[i] = "-" /\ name[i + 1] = "-"

\* C21: a name of lowercase alphanumeric characters with single internal
\* hyphens and 1 to 64 characters is accepted; a name with an uppercase
\* letter, a leading, trailing or double hyphen, 65 or more characters, or
\* no character is rejected.
C21_NameValidation ==
    output # Pending =>
        /\ WellFormedName(input) => output.raised = None
        /\ BreaksARule(input) => output.raised = "ValidationError"

\* a 64 character name with one internal hyphen was accepted
C21_Witness ==
    /\ output # Pending
    /\ Len(input) = 64
    /\ \E i \in 2..63 : input[i] = "-"
    /\ output.raised = None

-----------------------------------------------------------------------------
(* Properties of the SKILL.md header                                       *)

\* C22: parse_skill_md accepts allowed-tools as a space-separated string or
\* as a YAML list and gives the same list of strings either way: a list is
\* returned as it is, a string as its words, an empty or whitespace-only
\* string as the empty list.
C22_StringOrListSameTools ==
    output # Pending =>
        /\ output.raised = None
        /\ input.kind = "list" => output.value = input.value
        /\ input.kind = "str" =>
               /\ output.value = split(input.value, <<>>)
               /\ (\A i \in 1..Len(input.value) : input.value[i] = " ")
                      => output.value = <<>>

-----------------------------------------------------------------------------
(* Properties of the sub-agent run                                         *)

\* the model never gave a final text
NoFinalText == messages # <<>> /\ messages[Len(messages)].kind = "request"

C23_BudgetState ==
    /\ requests <= 20
    /\ (run_pc = "returned" /\ NoFinalText) =>
           /\ output.kind = "str"
           /\ output.text[1] = "Error: "

\* C23: a sub-agent run makes at most 20 model requests; a skill whose
\* model keeps requesting tool calls is stopped when the budget is used up,
\* and execute_skill then returns, with an 'Error:' string.
C23_RequestBudget == [](C23_BudgetState) /\ <>(run_pc = "returned")

\* twenty requests all answered with tool calls, and the call returned
C23_Witness ==
    /\ run_pc = "returned"
    /\ requests = 20
    /\ NoFinalText
    /\ output.text[1] = "Error: "

\* the tool returns of the history, in order
RECURSIVE ToolReturns(_)
ToolReturns(msgs) ==
    IF msgs = <<>> THEN <<>>
    ELSE ToolReturns(SubSeq(msgs, 1, Len(msgs) - 1))
         \o (IF msgs[Len(msgs)].kind = "request"
             THEN SelectSeq(msgs[Len(msgs)].parts,
                            LAMBDA part : part.part_kind = "tool-return")
             ELSE <<>>)

\* C24: _run_skill returns the content of the last tool return of the
\* history whenever a tool returned a result, and the model's final text
\* only when no tool returned anything.
C24_LastToolResultPreferred ==
    (run_pc = "returned" /\ ~NoFinalText) =>
        LET returns == ToolReturns(messages) IN
        IF returns # <<>>
        THEN output.text = <<model_response_str(returns[Len(returns)])>>
        ELSE output.text = <<run_output>>

-----------------------------------------------------------------------------
(* Properties of the task toolset                                          *)

Terminal == {"completed", "failed"}

\* C25: once a task has status completed or failed, no later operation
\* (update_task of the task toolset, execute_task of the orchestrator) sets
\* its status back to pending or in_progress.
C25_TerminalStatusIsFinal ==
    [][\A id \in DOMAIN _tasks :
           (_tasks[id].status \in Terminal /\ id \in DOMAIN _tasks')
               => _tasks'[id].status \in Terminal]_vars

C29_DistinctState ==
    \A i, j \in 1..Len(issued) : i # j => issued[i] # issued[j]

\* C29: the ids create_task issues come from a counter that only grows:
\* every id issued over the life of a TaskToolset differs from every id
\* issued before it, those issued before a reset() too.
C29_IdsNeverReused == [](C29_DistinctState) /\ [][_counter' >= _counter]_vars

\* a task was created after a reset that followed the creation of another
C29_Witness ==
    /\ Len(issued) = 2
    /\ DOMAIN _tasks = {issued[2]}
    /\ input.op = "create_task"

\* position of an id among the ids issued
IssuedAt(id) == CHOOSE i \in 1..Len(issued) : issued[i] = id

C30_NoDanglingState ==
    \A id \in DOMAIN _tasks :
        \A k \in 1..Len(_tasks[id].depends_on) :
            LET dep == _tasks[id].depends_on[k]
            IN /\ dep \in DOMAIN _tasks
               /\ IssuedAt(dep) < IssuedAt(id)

C30_FailedCreateStep ==
    (/\ input'.op = "create_task"
     /\ \E k \in 1..Len(input'.depends_on.ids) :
            input'.depends_on.ids[k] \notin DOMAIN _tasks)
    => /\ output' # <<>>
       /\ output'[1] = "Error: dependency '"
       /\ _tasks' = _tasks
       /\ _counter' = _counter

\* C30: create_task with a depends_on id that is not a current task returns
\* an error, creates no task and leaves the id counter as it was; so every
\* task's depends_on names only tasks of the toolset created before it.
C30_DependenciesExist == [](C30_NoDanglingState) /\ [][C30_FailedCreateStep]_vars

\* a create_task that names a task issued before a reset was refused
C30_Witness ==
    /\ input.op = "create_task"
    /\ input.depends_on.ids = <<"1">>
    /\ output[1] = "Error: dependency '"
    /\ \E i \in 1..Len(issued) : issued[i] = "1"
    /\ DOMAIN _tasks # {}

-----------------------------------------------------------------------------
(* Properties of the orchestrator                                          *)

\* C26: in orchestrate, a task whose execution raises ends failed with its
\* error set; the other tasks of the plan still run to completed or failed
\* and an answer is still produced (the failure of a task never makes
\* orchestrate raise); when orchestrate returns no task is pending or
\* in_progress.
C26_TaskFailureIsContained ==
    /\ \A i \in 1..Len(coro) :
           coro[i] = "raised" =>
               /\ orchestrator_state.tasks[i].status = "failed"
               /\ orchestrator_state.tasks[i].error # None
    /\ orch_pc \in {"synthesizing", "returned"} =>
           \A i \in 1..Len(orchestrator_state.tasks) :
               orchestrator_state.tasks[i].status \in {"completed", "failed"}
    /\ orch_pc = "returned" =>
           /\ orchestrator_state.result # NoneObj
           /\ orchestrator_state.result.answer # ""
    /\ orch_pc = "raised" => output.raised \in {"planning", "synthesizing"}

\* orchestrate returned an answer for a plan of which one task failed on an
\* unknown skill, one on its run, and one completed
C26_Witness ==
    /\ orch_pc = "returned"
    /\ \E i, j, k \in 1..Len(orchestrator_state.tasks) :
           /\ orchestrator_state.tasks[i].error = "KeyError"
           /\ orchestrator_state.tasks[j].error = "model error"
           /\ orchestrator_state.tasks[k].status = "completed"

\* C27: during the fan-out, the tasks inside the agent run of execute_task
\* are at most max_concurrency; a task beyond the limit waits for a slot:
\* every task in its run holds one of the max_concurrency slots.
C27_BoundedConcurrency ==
    /\ Cardinality(Coros({"running"})) <= input.max_concurrency
    /\ _semaphore >= 0
    /\ Cardinality(Coros({"running"})) + _semaphore = input.max_concurrency

\* every slot is taken and a further task waits
C27_Witness ==
    /\ Cardinality(Coros({"running"})) = input.max_concurrency
    /\ Coros({"acquiring"}) # {}

\* C28: for a plan of exactly one task orchestrate does not call synthesize
\* and returns that task's result (its error if it failed) as the answer;
\* synthesize is called only for plans of two or more tasks.
C28_SingleTaskSkipsSynthesis ==
    /\ synthesize_calls > 0 => Len(orchestrator_state.tasks) >= 2
    /\ (orch_pc = "returned" /\ Len(orchestrator_state.tasks) = 1) =>
           orchestrator_state.result.answer
               = IF orchestrator_state.tasks[1].status = "failed"
                 THEN orchestrator_state.tasks[1].error
                 ELSE orchestrator_state.tasks[1].result

-----------------------------------------------------------------------------
(* Properties of the task list over the steps of a run                     *)

\* C31: get_tools clears the task list exactly when it is called with
\* run_step 0 and leaves every task (and the id counter) as it was at any
\* later step: tasks persist over the steps of one run and none is carried
\* into the next run, which starts with a get_tools at step 0.
C31_ResetExactlyOnFirstStep ==
    [][input'.op = "get_tools"
          => /\ _counter' = _counter
             /\ IF input'.run_step = 0 THEN _tasks' = << >>
                                       ELSE _tasks' = _tasks]_vars

\* get_tools ran at a later step of a run that has tasks
C31_Witness ==
    /\ input.op = "get_tools"
    /\ input.run_step > 0
    /\ DOMAIN _tasks # {}

\* the dependencies of task id that are not completed
UnmetDependencies(tasks, id) ==
    {k \in 1..Len(tasks[id].depends_on) :
        \/ tasks[id].depends_on[k] \notin DOMAIN tasks
        \/ tasks[tasks[id].depends_on[k]].status # "completed"}

\* C32: update_task never moves a task to in_progress or completed while a
\* task named in its depends_on is not completed.
C32_DependenciesCompleteFirst ==
    [][(input'.op = "update_task" /\ input'.task_id \in DOMAIN _tasks')
          => LET id == input'.task_id
             IN (/\ id \in DOMAIN _tasks
                 /\ _tasks'[id].status # _tasks[id].status
                 /\ _tasks'[id].status \in {"in_progress", "completed"})
                    => UnmetDependencies(_tasks, id) = {}]_vars

-----------------------------------------------------------------------------
(* Properties of the queue and the failures of an AguiEventStream          *)

\* the capacities a queue of the model could be told to have
Capacities == 1..MaxAdapter

\* C33: the queue of the stream is bounded: there is a capacity that the
\* number of events put and not yet consumed never exceeds, a producer that
\* finds the queue full waiting instead of growing it.
C33_QueueBounded == \E capacity \in Capacities : Len(_queue) <= capacity

\* C38: when the adapter's event stream fails with an exception, the
\* consumer observes the failure, raised from the iteration or from leaving
\* the context: the context is never left normally with the failure unseen.
C38_AdapterFailureObserved == _task = "failed" => stream_pc # "exited"

-----------------------------------------------------------------------------
(* Properties of a client that applies the deltas                          *)

RECURSIVE AttachedOperations(_)
AttachedOperations(metadata) ==
    IF metadata = <<>> THEN <<>>
    ELSE (IF Head(metadata).type = "STATE_DELTA" THEN Head(metadata).delta ELSE <<>>)
         \o AttachedOperations(Tail(metadata))

\* C35: a client copy that equals build_state_snapshot() before an
\* execute_skill call still equals it after the call, whether the call
\* returned a result or an "Error:" string, once the deltas attached to what
\* it returned are applied to the copy; so the copy and the toolset agree
\* after any sequence of calls that do not overlap.
C35_ClientCopyFollows ==
    (lastOp.op = "execute_skill_end" /\ lastOp.x.old_snapshot # NoneObj)
        => LET x      == lastOp.x
               now    == build_state_snapshot
               before == JObj([ns \in Keys(now) |->
                                  IF ns = x.namespace THEN x.old_snapshot.d[ns]
                                  ELSE now.d[ns]])
               ops    == IF x.ret.kind = "ToolReturn"
                         THEN AttachedOperations(x.ret.metadata) ELSE <<>>
           IN JsonPatch_apply(before, ops) = now

\* C36: the state instance handed to the tools of a skill stays the
\* instance the toolset holds for the namespace until execute_skill
\* returns, so that what the tools change is seen through get_namespace()
\* and build_state_snapshot(); also when restore_state_snapshot, or the
\* restore get_tools makes, runs while the skill executes.
C36_InstanceHeldUntilReturn ==
    \A e \in Running(execs) :
        execs[e].state # 0 => _namespaces[execs[e].namespace] = execs[e].state

\* C37: while a merged stream is open and its drain task has not finished,
\* the toolset's event sink is the sink of that stream; also when a second
\* stream is opened or closed on the same toolset in the meantime.
C37_SinkIsTheOpenStreams ==
    \A i \in StreamIds :
        (streams[i].pc = "open" /\ streams[i]._task \in {"created", "running"})
            => _event_sink = SinkOf(i)

-----------------------------------------------------------------------------
(* Properties of the slots of the orchestrator                             *)

CoroEnded == {"returned", "raised", "cancelled"}

\* the slots out are those of the tasks inside agent.run, no more
C39_SlotState ==
    /\ _semaphore <= input.max_concurrency
    /\ _semaphore = input.max_concurrency - Cardinality(Coros({"running"}))
    /\ orch_pc \in {"synthesizing", "returned", "raised", "cancelled"}
           => _semaphore = input.max_concurrency

\* a step that ends the agent run of a task gives its slot back
C39_ReleaseStep ==
    \A i \in 1..Len(coro) :
        (coro[i] = "running" /\ coro'[i] \in CoroEnded) => _semaphore' = _semaphore + 1

\* C39 as stated: every slot execute_task takes is released when its agent
\* run ends, by success, by exception or by cancellation; so, every agent
\* run ending, every task reaches completed or failed, however many tasks
\* exceed max_concurrency: once orchestrate is over, no task is left
\* pending or in_progress.
C39_EveryTaskEnds ==
    /\ C39_SlotState
    /\ orch_pc \in {"returned", "raised", "cancelled"} =>
           \A i \in 1..Len(orchestrator_state.tasks) :
               orchestrator_state.tasks[i].status \in Terminal

\* C39, amended: every slot execute_task takes is released when its agent
\* run ends, by success, by exception or by cancellation; so, every agent
\* run ending, every task of the plan leaves the wait for a slot and, unless
\* its coroutine is cancelled, reaches completed or failed, however many
\* tasks exceed max_concurrency.  (A cancelled task keeps the status it had.)
C39_SlotsReleasedTasksEnd ==
    /\ [](C39_SlotState)
    /\ [][C39_ReleaseStep]_vars
    /\ \A i \in 1..MaxPlanTasks :
           (i \in DOMAIN coro /\ coro[i] \in {"new", "acquiring", "running"})
               ~> (/\ i \in DOMAIN coro
                   /\ \/ coro[i] = "cancelled"
                      \/ orchestrator_state.tasks[i].status \in Terminal)

\* orchestrate returned for a plan with more tasks than slots, one of which
\* had to wait; every slot is back
C39_Witness ==
    /\ orch_pc = "returned"
    /\ Len(coro) > input.max_concurrency
    /\ Coros({"returned"}) = 1..Len(coro)
    /\ _semaphore = input.max_concurrency

====
